---------------------------- MODULE Spec2Model ----------------------------
(***************************************************************************)
(* A model of cloudmonkey's command dispatch (cmd/api.go), its file upload *)
(* flow (cmd/fileupload.go) and the spinner controller (config/spinner.go).*)
(*                                                                         *)
(* Each subsystem has its own specification over the same variables:       *)
(*   SpecSpinner   the spinner controller under arbitrary client calls     *)
(*   SpecDispatch  one run of the api command's handler on a token list    *)
(*   SpecUpload    the upload flow from the file prompt on, and            *)
(*                 ValidateAndGetFileList called on its own                *)
(***************************************************************************)
EXTENDS Integers, Sequences, FiniteSets, TLC

(***************************************************************************)
(* Bounds of the model.                                                    *)
(***************************************************************************)
\* the number of spinner handles a run may create
MaxSpinners == 2
\* the number of tokens of a typed command line
MaxTokens == 3
\* the number of characters of a line typed at the file prompt
MaxLine == 5

\* the width of the progress bar, in characters
progressCharCount == 24

(***************************************************************************)
(* State.                                                                  *)
(***************************************************************************)
VARIABLES
    \* ---- config.Config and the spinners it created ----
    HasShell,        \* Config.HasShell: an interactive shell is attached
    activeSpinners,  \* Config.activeSpinners: sequence of handles
    created,         \* handles 1..created exist (spinner.New was called)
    running,         \* the handles whose animation runs (Spinner.Active())
    suffix,          \* Spinner.Suffix of every created handle
    \* ---- what the controller's clients observed (history) ----
    stopped,         \* the handles StopSpinner was called with
    halted,          \* the handles the last PauseActiveSpinners halted
    pausedFrom,      \* the members of the list when it was last paused
    prevOp,          \* the controller operation that ran before the last
    lastOp,          \* the controller operation that ran last
    arg,             \* the handle that operation was called with
    ret,             \* the value that operation returned
    \* ---- one run of apiCommand.Handle ----
    pc,              \* where the run stands
    typed,           \* the tokens as the user typed them (history)
    args,            \* Request.Args
    apiName,         \* the handler's local apiName
    apiArgs,         \* the handler's local apiArgs
    missingArgs,     \* the handler's local missingArgs
    invoked,         \* the calls of NewAPIRequest: name, arguments, async
    response,        \* what NewAPIRequest returned: the response map
    err,             \* what NewAPIRequest returned: the error
    output,          \* what the run printed, in order
    helpCalls,       \* the calls of helpCommand.Handle
    promptCalls,     \* the calls of promptForFileUpload
    outcome,         \* what Handle (or the upload flow) returned
    \* ---- PromptAndUploadFilesIfNeeded, UploadFiles, uploadFile ----
    apiArg,          \* the api argument
    upResponse,      \* the response argument
    filePaths,       \* the string Scanln stored, a local of the prompt flow:
                     \* <<>> once UploadFiles, which is not passed it, runs
    validation,      \* what ValidateAndGetFileList returned
    validFiles,      \* UploadFiles' validFiles
    spn,             \* UploadFiles' spinner handle
    idx,             \* the loop's i: files 1..idx are behind us
    errored,         \* UploadFiles' errored counter
    attempts,        \* the uploadFile calls, by file index (history)
    results,         \* what each uploadFile call returned (history)
    inFlight,        \* the HTTP requests sent and not yet answered
    io,              \* the file and network operations so far (history)
    cancelledAt,     \* the file in flight when the caller cancelled, 0 if never
    replies,         \* what client.Do and then uploadFile returned (history)
    enc,             \* uploadFile's temporary file, writer and request
    activeBefore,    \* Config.activeSpinners when the flow was entered (history)
    \* ---- the read-instrumented stream of one upload ----
    reader,          \* which type wraps the file: progressBody or progressReader
    total,           \* the stream's total
    read,            \* the stream's read
    percent,         \* the percentage last handed to the sink
    prevPercent,     \* the percentage handed to the sink before that (history)
    \* ---- one call of barArrow ----
    barPct,          \* the pct argument
    bar              \* the string returned, "" before the call returns

spinVars == <<HasShell, activeSpinners, created, running, suffix, ret>>
histVars == <<stopped, halted, pausedFrom, prevOp, lastOp, arg>>
dispVars == <<pc, typed, args, apiName, apiArgs, missingArgs, invoked, response, err,
              output, helpCalls, promptCalls, outcome>>
upVars == <<apiArg, upResponse, filePaths, validation, validFiles, spn, idx,
            errored, attempts, results, inFlight, io, cancelledAt, replies, enc,
            activeBefore>>
progVars == <<reader, total, read, percent, prevPercent, barPct, bar>>
vars == <<spinVars, histVars, dispVars, upVars, progVars>>

\* the empty handle (a nil *spinner.Spinner)
Nil == 0

uploadingMessage == "Uploading files, please wait..."

\* what ValidateAndGetFileList returns before it is called
NotValidated == [files |-> <<>>, failed |-> FALSE, error |-> "nil"]

\* uploadFile's locals before os.CreateTemp: nothing written, no request
EncIdle ==
    [parts |-> <<>>, written |-> 0, closed |-> FALSE, offset |-> 0, size |-> 0,
     contentLength |-> 0, bodyFrom |-> 0, streamed |-> 0, steps |-> <<>>]

\* the upload flow's state when no flow is modelled
UploadIdle ==
    /\ apiArg = <<>>
    /\ upResponse = [kind |-> "absent", keys |-> {}]
    /\ filePaths = <<>>
    /\ validation = NotValidated
    /\ validFiles = <<>>
    /\ spn = Nil
    /\ idx = 0
    /\ errored = 0
    /\ attempts = <<>>
    /\ results = <<>>
    /\ inFlight = 0
    /\ io = [stats |-> 0, opens |-> 0, temps |-> 0, sends |-> 0]
    /\ cancelledAt = 0
    /\ replies = <<>>
    /\ enc = EncIdle
    /\ activeBefore = <<>>

\* no percentage was handed to the sink yet
NoPercent == -1

\* the stream's state when no stream is modelled
ProgressIdle ==
    /\ reader = "none"
    /\ total = 0
    /\ read = 0
    /\ percent = NoPercent
    /\ prevPercent = NoPercent
    /\ barPct = 0
    /\ bar = ""

Range(s) == {s[k] : k \in 1..Len(s)}

(***************************************************************************)
(* Strings are sequences of one-character strings, so that the strings     *)
(* package's functions are computed and not assumed.                       *)
(***************************************************************************)
UpperChars == <<"A", "B", "C", "D", "E", "F", "G", "H", "I", "J", "K", "L", "M",
                "N", "O", "P", "Q", "R", "S", "T", "U", "V", "W", "X", "Y", "Z">>

LowerChars == <<"a", "b", "c", "d", "e", "f", "g", "h", "i", "j", "k", "l", "m",
                "n", "o", "p", "q", "r", "s", "t", "u", "v", "w", "x", "y", "z">>

LowerChar(c) ==
    IF \E k \in 1..Len(UpperChars) : UpperChars[k] = c
    THEN LowerChars[CHOOSE k \in 1..Len(UpperChars) : UpperChars[k] = c]
    ELSE c

\* strings.ToLower
ToLower(s) == [k \in 1..Len(s) |-> LowerChar(s[k])]

\* strings.Contains(s, c) for a one-character c
ContainsChar(s, c) == \E k \in 1..Len(s) : s[k] = c

\* strings.HasPrefix
HasPrefix(s, prefix) ==
    /\ Len(prefix) <= Len(s)
    /\ SubSeq(s, 1, Len(prefix)) = prefix

\* strings.ReplaceAll(s, c, "") for a one-character c
RemoveChar(s, c) == SelectSeq(s, LAMBDA x : x # c)

\* strings.FieldsFunc(s, isComma): the maximal runs of non-comma characters
RECURSIVE FieldsFrom(_, _, _)
FieldsFrom(s, cur, acc) ==
    IF s = <<>>
    THEN IF cur = <<>> THEN acc ELSE Append(acc, cur)
    ELSE IF Head(s) = ","
         THEN FieldsFrom(Tail(s), <<>>, IF cur = <<>> THEN acc ELSE Append(acc, cur))
         ELSE FieldsFrom(Tail(s), Append(cur, Head(s)), acc)

FieldsFunc(s) == FieldsFrom(s, <<>>, <<>>)

\* strings.TrimLeft(s, " ")
RECURSIVE TrimLeft(_)
TrimLeft(s) ==
    IF s # <<>> /\ Head(s) = " " THEN TrimLeft(Tail(s)) ELSE s

\* strings.TrimRight(s, " ")
RECURSIVE TrimRight(_)
TrimRight(s) ==
    IF s # <<>> /\ s[Len(s)] = " " THEN TrimRight(SubSeq(s, 1, Len(s) - 1)) ELSE s

\* strings.TrimSpace
TrimSpace(s) == TrimRight(TrimLeft(s))

\* strings.Join
RECURSIVE Join(_, _)
Join(list, sep) ==
    IF list = <<>> THEN <<>>
    ELSE IF Len(list) = 1 THEN list[1]
    ELSE list[1] \o sep \o Join(Tail(list), sep)

\* the characters of s before the first space
RECURSIVE UntilSpace(_)
UntilSpace(s) ==
    IF s = <<>> \/ Head(s) = " " THEN <<>> ELSE <<Head(s)>> \o UntilSpace(Tail(s))

\* fmt.Scanln(&str) on a typed line: the first space-delimited token
Scanln(line) == UntilSpace(TrimLeft(line))

\* strconv of a natural number, as %d prints it
Digits == <<"0", "1", "2", "3", "4", "5", "6", "7", "8", "9">>

RECURSIVE Itoa(_)
Itoa(n) == IF n < 10 THEN Digits[n + 1] ELSE Itoa(n \div 10) \o Digits[(n % 10) + 1]

\* a sequence of characters as one string, as %s prints it
RECURSIVE StrOf(_)
StrOf(s) == IF s = <<>> THEN "" ELSE Head(s) \o StrOf(Tail(s))

\* filepath.Base
RECURSIVE StripSlashes(_)
StripSlashes(s) ==
    IF s # <<>> /\ s[Len(s)] = "/" THEN StripSlashes(SubSeq(s, 1, Len(s) - 1)) ELSE s

RECURSIVE AfterLastSlash(_)
AfterLastSlash(s) ==
    IF \E k \in 1..Len(s) : s[k] = "/" THEN AfterLastSlash(Tail(s)) ELSE s

Base(path) ==
    IF path = <<>> THEN <<".">>
    ELSE IF StripSlashes(path) = <<>> THEN <<"/">>
    ELSE AfterLastSlash(StripSlashes(path))

(***************************************************************************)
(* briandowns/spinner, as far as this repository uses it: a handle either  *)
(* animates or does not; Start and Stop are idempotent.                    *)
(***************************************************************************)
SpinnerStop(run, h) == run \ {h}

SpinnerStart(run, h) == run \cup {h}

SpinnerActive(run, h) == h \in run

(***************************************************************************)
(* config/spinner.go                                                       *)
(***************************************************************************)
\* a StartSpinner that also restarts every handle created before
StartSpinnerRestartsAll(sfx) ==
    IF ~HasShell
    THEN /\ ret' = Nil
         /\ UNCHANGED <<activeSpinners, created, running, suffix>>
    ELSE LET waiter == created + 1 IN
         /\ created' = waiter
         /\ suffix' = (waiter :> (" " \o sfx)) @@ suffix
         /\ running' = running \cup (1..waiter)
         /\ activeSpinners' = Append(activeSpinners, waiter)
         /\ ret' = waiter

\* StartSpinner: nil without a shell; else a new animating handle, appended
StartSpinner(sfx) ==
    IF ~HasShell
    THEN /\ ret' = Nil
         /\ UNCHANGED <<activeSpinners, created, running, suffix>>
    ELSE LET waiter == created + 1 IN
         /\ created' = waiter
         /\ suffix' = (waiter :> (" " \o sfx)) @@ suffix
         /\ running' = SpinnerStart(running, waiter)
         /\ activeSpinners' = Append(activeSpinners, waiter)
         /\ ret' = waiter

\* the index of the first occurrence of waiter in s, 0 when absent
FirstIndex(s, waiter) ==
    IF \E k \in 1..Len(s) : s[k] = waiter
    THEN CHOOSE k \in 1..Len(s) :
            /\ s[k] = waiter
            /\ \A j \in 1..(k - 1) : s[j] # waiter
    ELSE 0

\* append(s[:i], s[i+1:]...)
RemoveAt(s, i) == SubSeq(s, 1, i - 1) \o SubSeq(s, i + 1, Len(s))

\* a StopSpinner that halts the handle and forgets to drop it from the list
StopSpinnerKeeps(waiter) ==
    IF waiter = Nil
    THEN UNCHANGED <<activeSpinners, running>>
    ELSE /\ running' = SpinnerStop(running, waiter)
         /\ UNCHANGED activeSpinners

\* a StopSpinner that halts the handle and drops the head of the list
StopSpinnerDropsHead(waiter) ==
    IF waiter = Nil
    THEN UNCHANGED <<activeSpinners, running>>
    ELSE /\ running' = SpinnerStop(running, waiter)
         /\ activeSpinners' = IF activeSpinners = <<>> THEN <<>> ELSE Tail(activeSpinners)

\* StopSpinner: a no-op on nil; else halt, and drop the first occurrence
StopSpinner(waiter) ==
    IF waiter = Nil
    THEN UNCHANGED <<activeSpinners, running>>
    ELSE /\ running' = SpinnerStop(running, waiter)
         /\ activeSpinners' =
                LET i == FirstIndex(activeSpinners, waiter) IN
                IF i = 0 THEN activeSpinners ELSE RemoveAt(activeSpinners, i)

\* the handles PauseActiveSpinners calls Stop on
PauseTargets == {s \in Range(activeSpinners) : s # Nil /\ SpinnerActive(running, s)}

\* PauseActiveSpinners: halt every animating member, keep the list; the
\* count returned is len(c.activeSpinners)
PauseActiveSpinners ==
    /\ running' = running \ PauseTargets
    /\ ret' = Len(activeSpinners)
    /\ UNCHANGED activeSpinners

\* the handles ResumePausedSpinners calls Start on
ResumeTargets == {s \in Range(activeSpinners) : s # Nil /\ ~SpinnerActive(running, s)}

\* a ResumePausedSpinners that starts every handle ever created
ResumeEveryCreated ==
    /\ running' = running \cup (1..created)
    /\ UNCHANGED activeSpinners

\* ResumePausedSpinners: start every member that does not animate
ResumePausedSpinners ==
    /\ running' = running \cup ResumeTargets
    /\ UNCHANGED activeSpinners

(***************************************************************************)
(* cmd/api.go: the api command's handler.                                  *)
(***************************************************************************)
\* the tokens a user may type
TokList == <<"L", "i", "s", "t">>
TokVms == <<"V", "M", "s">>
TokStopVm == <<"s", "t", "o", "p", "v", "m">>
TokId == <<"i", "d", "=", "5">>
TokIdx == <<"i", "d", "x", "=", "5">>
TokName == <<"n", "a", "m", "e", "=", "v">>
TokHelp == <<"-", "h">>
TokIso == <<"g", "e", "t", "U", "p", "l", "o", "a", "d", "P", "a", "r", "a", "m",
            "s", "F", "o", "r", "I", "s", "o">>

TokTemplate == <<"g", "e", "t", "U", "p", "l", "o", "a", "d", "P", "a", "r", "a", "m",
                 "s", "F", "o", "r", "T", "e", "m", "p", "l", "a", "t", "e">>

TokenPool == {TokList, TokVms, TokStopVm, TokId, TokIdx, TokName, TokHelp, TokIso,
              TokTemplate}

TokenLists == UNION {[1..n -> TokenPool] : n \in 0..MaxTokens}

\* Config.GetCache(): the registered APIs by lower-cased name
ApiListVms ==
    [Name |-> <<"l", "i", "s", "t", "V", "M", "s">>,
     RequiredArgs |-> <<>>,
     Async |-> FALSE]

ApiStopVm ==
    [Name |-> <<"s", "t", "o", "p", "V", "m">>,
     RequiredArgs |-> << <<"i", "d", "=">>, <<"n", "a", "m", "e", "=">> >>,
     Async |-> TRUE]

ApiIso ==
    [Name |-> TokIso,
     RequiredArgs |-> <<>>,
     Async |-> FALSE]

ApiTemplate ==
    [Name |-> TokTemplate,
     RequiredArgs |-> <<>>,
     Async |-> FALSE]

Cache == {ApiListVms, ApiStopVm, ApiIso, ApiTemplate}

\* GetCache()[name] != nil
InCache(name) == \E api \in Cache : ToLower(api.Name) = name

\* GetCache()[name]
CacheGet(name) == CHOOSE api \in Cache : ToLower(api.Name) = name

\* the handler's apiName: the first token, or the first two joined when the
\* first alone is not registered and a second exists
ResolveName(a) ==
    IF ~InCache(ToLower(a[1])) /\ Len(a) > 1
    THEN ToLower(a[1] \o a[2])
    ELSE ToLower(a[1])

\* a resolver that merges two tokens into the name and consumes only one
ResolveArgsKeepsSecond(a) == SubSeq(a, 2, Len(a))

\* the handler's apiArgs
ResolveArgs(a) ==
    IF ~InCache(ToLower(a[1])) /\ Len(a) > 1
    THEN SubSeq(a, 3, Len(a))
    ELSE SubSeq(a, 2, Len(a))

\* a check that wants the argument's key to be the required name exactly
ProvidedExactKey(required, as) ==
    \E k \in 1..Len(as) :
        /\ ContainsChar(as[k], "=")
        /\ HasPrefix(as[k], Append(required, "="))

\* whether some argument carries the required name
Provided(required, as) ==
    \E k \in 1..Len(as) : ContainsChar(as[k], "=") /\ HasPrefix(as[k], required)

\* the loop over api.RequiredArgs that collects missingArgs
RECURSIVE MissingFrom(_, _, _)
MissingFrom(reqs, as, acc) ==
    IF reqs = <<>>
    THEN acc
    ELSE LET required == RemoveChar(Head(reqs), "=") IN
         MissingFrom(Tail(reqs), as,
                     IF Provided(required, as)
                     THEN acc
                     ELSE Append(acc, RemoveChar(required, "=")))

MissingArgs(api, as) == MissingFrom(api.RequiredArgs, as, <<>>)

\* a check that sees the help flag only as the last token
HasHelpFlagLast(a) == Len(a) > 0 /\ a[Len(a)] = TokHelp

\* the literal help flag is among the tokens
HasHelpFlag(a) == \E k \in 1..Len(a) : a[k] = TokHelp

\* the response maps NewAPIRequest may return; a nil map has len 0
RespNil == [isNil |-> TRUE, len |-> 0]
RespEmpty == [isNil |-> FALSE, len |-> 0]
RespSome == [isNil |-> FALSE, len |-> 1]

Responses == {RespNil, RespEmpty, RespSome}

\* strings.HasSuffix
HasSuffix(s, sfx) ==
    /\ Len(sfx) <= Len(s)
    /\ SubSeq(s, Len(s) - Len(sfx) + 1, Len(s)) = sfx

\* the errors NewAPIRequest may return: no error, a cancelled context, a
\* refusal by the server, and a failure that mentions a cancelled context
\* elsewhere than at its end
ErrNone == [isNil |-> TRUE, text |-> <<>>]
ErrCanceled ==
    [isNil |-> FALSE,
     text |-> <<"G", "e", "t", " ", "/", "c", "l", "i", "e", "n", "t", "/",
               "a", "p", "i", ":", " ", "c", "o", "n", "t", "e", "x", "t",
               " ", "c", "a", "n", "c", "e", "l", "e", "d">>]
ErrOther ==
    [isNil |-> FALSE,
     text |-> <<"(", "H", "T", "T", "P", " ", "4", "3", "1", ")", " ", "u",
               "n", "a", "b", "l", "e", " ", "t", "o", " ", "v", "e", "r",
               "i", "f", "y", " ", "u", "s", "e", "r">>]
ErrRetried ==
    [isNil |-> FALSE,
     text |-> <<"c", "o", "n", "t", "e", "x", "t", " ", "c", "a", "n", "c",
               "e", "l", "e", "d", ",", " ", "r", "e", "t", "r", "y", " ",
               "f", "a", "i", "l", "e", "d">>]

Errors == {ErrCanceled, ErrOther, ErrRetried}

\* the suffix apiCommand.Handle looks for
CanceledSuffix == <<"c", "o", "n", "t", "e", "x", "t", " ", "c", "a", "n", "c",
                   "e", "l", "e", "d">>

\* a check that looks for the text anywhere in the error
IsCanceledAnywhere(e) ==
    \E k \in 1..Len(e.text) : HasPrefix(SubSeq(e.text, k, Len(e.text)), CanceledSuffix)

\* strings.HasSuffix(err.Error(), "context canceled")
IsCanceled(e) == HasSuffix(e.text, CanceledSuffix)

\* the API names after which the handler prompts for files to upload
UploadApiNames ==
    {<<"g", "e", "t", "u", "p", "l", "o", "a", "d", "p", "a", "r", "a", "m", "s",
       "f", "o", "r", "i", "s", "o">>,
     <<"g", "e", "t", "u", "p", "l", "o", "a", "d", "p", "a", "r", "a", "m", "s",
       "f", "o", "r", "v", "o", "l", "u", "m", "e">>,
     <<"g", "e", "t", "u", "p", "l", "o", "a", "d", "p", "a", "r", "a", "m", "s",
       "f", "o", "t", "e", "m", "p", "l", "a", "t", "e">>}

\* the handler's state when no run is modelled
DispatchIdle ==
    /\ pc = "idle"
    /\ typed = <<>>
    /\ args = <<>>
    /\ apiName = <<>>
    /\ apiArgs = <<>>
    /\ missingArgs = <<>>
    /\ invoked = <<>>
    /\ response = RespNil
    /\ err = ErrNone
    /\ output = <<>>
    /\ helpCalls = <<>>
    /\ promptCalls = <<>>
    /\ outcome = "running"

InitDispatch ==
    /\ HasShell \in BOOLEAN
    /\ activeSpinners = <<>>
    /\ created = 0
    /\ running = {}
    /\ suffix = <<>>
    /\ stopped = {}
    /\ halted = {}
    /\ pausedFrom = {}
    /\ prevOp = "none"
    /\ lastOp = "none"
    /\ arg = Nil
    /\ ret = Nil
    /\ pc = "start"
    /\ typed \in TokenLists
    /\ args = typed
    /\ apiName = <<>>
    /\ apiArgs = <<>>
    /\ missingArgs = <<>>
    /\ invoked = <<>>
    /\ response = RespNil
    /\ err = ErrNone
    /\ output = <<>>
    /\ helpCalls = <<>>
    /\ promptCalls = <<>>
    /\ outcome = "running"
    /\ UploadIdle
    /\ ProgressIdle

\* len(r.Args) == 0
HandleNoArgs ==
    /\ pc = "start"
    /\ Len(args) = 0
    /\ pc' = "returned"
    /\ outcome' = "NoAPI"
    /\ UNCHANGED <<spinVars, histVars, upVars, progVars>>
    /\ UNCHANGED <<typed, args, apiName, apiArgs, missingArgs, invoked, response, err,
                   output, helpCalls, promptCalls>>

\* a token is -h: Args[0] becomes the resolved name and help handles it
HandleHelp ==
    /\ pc = "start"
    /\ Len(args) > 0
    /\ HasHelpFlag(args)
    /\ apiName' = ResolveName(args)
    /\ apiArgs' = ResolveArgs(args)
    /\ args' = [args EXCEPT ![1] = ResolveName(args)]
    /\ helpCalls' = Append(helpCalls, args')
    /\ pc' = "returned"
    /\ outcome' = "Help"
    /\ UNCHANGED <<spinVars, histVars, upVars, progVars>>
    /\ UNCHANGED <<typed, missingArgs, invoked, response, err, output, promptCalls>>

\* the resolved name is not registered
HandleUnknown ==
    /\ pc = "start"
    /\ Len(args) > 0
    /\ ~HasHelpFlag(args)
    /\ ~InCache(ResolveName(args))
    /\ apiName' = ResolveName(args)
    /\ apiArgs' = ResolveArgs(args)
    /\ pc' = "returned"
    /\ outcome' = "UnknownCommand"
    /\ UNCHANGED <<spinVars, histVars, upVars, progVars>>
    /\ UNCHANGED <<typed, args, missingArgs, invoked, response, err, output, helpCalls,
                   promptCalls>>

\* a handler that prints the missing names and goes on to call the API
HandleMissingGoesOn ==
    /\ pc = "start"
    /\ Len(args) > 0
    /\ ~HasHelpFlag(args)
    /\ InCache(ResolveName(args))
    /\ LET api == CacheGet(ResolveName(args))
           missing == MissingArgs(api, ResolveArgs(args)) IN
        /\ Len(missing) > 0
        /\ missingArgs' = missing
        /\ output' = Append(output, <<"Missing required parameters", missing>>)
        /\ invoked' = Append(invoked, [name |-> api.Name,
                                       args |-> ResolveArgs(args),
                                       async |-> api.Async])
    /\ apiName' = ResolveName(args)
    /\ apiArgs' = ResolveArgs(args)
    /\ pc' = "invoking"
    /\ UNCHANGED <<spinVars, histVars, upVars, progVars>>
    /\ UNCHANGED <<typed, args, response, err, helpCalls, promptCalls, outcome>>

\* a required argument is missing: the names are printed, nil is returned
HandleMissing ==
    /\ pc = "start"
    /\ Len(args) > 0
    /\ ~HasHelpFlag(args)
    /\ InCache(ResolveName(args))
    /\ LET api == CacheGet(ResolveName(args))
           missing == MissingArgs(api, ResolveArgs(args)) IN
        /\ Len(missing) > 0
        /\ missingArgs' = missing
        /\ output' = Append(output, <<"Missing required parameters", missing>>)
    /\ apiName' = ResolveName(args)
    /\ apiArgs' = ResolveArgs(args)
    /\ pc' = "returned"
    /\ outcome' = "MissingRequiredArgs"
    /\ UNCHANGED <<spinVars, histVars, upVars, progVars>>
    /\ UNCHANGED <<typed, args, invoked, response, err, helpCalls, promptCalls>>

\* nothing is missing: NewAPIRequest is called
HandleInvoke ==
    /\ pc = "start"
    /\ Len(args) > 0
    /\ ~HasHelpFlag(args)
    /\ InCache(ResolveName(args))
    /\ LET api == CacheGet(ResolveName(args))
           missing == MissingArgs(api, ResolveArgs(args)) IN
        /\ Len(missing) = 0
        /\ missingArgs' = missing
        /\ invoked' = Append(invoked, [name |-> api.Name,
                                       args |-> ResolveArgs(args),
                                       async |-> api.Async])
    /\ apiName' = ResolveName(args)
    /\ apiArgs' = ResolveArgs(args)
    /\ pc' = "invoking"
    /\ UNCHANGED <<spinVars, histVars, upVars, progVars>>
    /\ UNCHANGED <<typed, args, response, err, output, helpCalls, promptCalls, outcome>>

\* NewAPIRequest failed with a context cancellation: silent, nil returned
InvokeCanceled ==
    /\ pc = "invoking"
    /\ \E resp \in Responses :
        /\ response' = resp
        /\ \E e \in Errors : err' = e
        /\ IsCanceled(err')
    /\ pc' = "returned"
    /\ outcome' = "Cancelled"
    /\ UNCHANGED <<spinVars, histVars, upVars, progVars>>
    /\ UNCHANGED <<typed, args, apiName, apiArgs, missingArgs, invoked, output,
                   helpCalls, promptCalls>>

\* NewAPIRequest failed otherwise: a non-nil response is printed, the error
\* is returned
InvokeFailed ==
    /\ pc = "invoking"
    /\ \E resp \in Responses :
        /\ response' = resp
        /\ \E e \in Errors : err' = e
        /\ ~IsCanceled(err')
        /\ output' = IF ~resp.isNil
                     THEN Append(output, <<"printResult", resp>>)
                     ELSE output
    /\ pc' = "returned"
    /\ outcome' = "Error"
    /\ UNCHANGED <<spinVars, histVars, upVars, progVars>>
    /\ UNCHANGED <<typed, args, apiName, apiArgs, missingArgs, invoked, helpCalls,
                   promptCalls>>

\* NewAPIRequest succeeded: a non-empty response is printed and, in a shell
\* and for an upload API, the file prompt follows
InvokeSucceeded ==
    /\ pc = "invoking"
    /\ \E resp \in Responses :
        /\ response' = resp
        /\ err' = ErrNone
        /\ output' = IF resp.len > 0
                     THEN Append(output, <<"printResult", resp>>)
                     ELSE output
        /\ promptCalls' =
                IF /\ resp.len > 0
                   /\ HasShell
                   /\ ToLower(CacheGet(apiName).Name) \in UploadApiNames
                THEN Append(promptCalls, ToLower(CacheGet(apiName).Name))
                ELSE promptCalls
    /\ pc' = "returned"
    /\ outcome' = "OK"
    /\ UNCHANGED <<spinVars, histVars, upVars, progVars>>
    /\ UNCHANGED <<typed, args, apiName, apiArgs, missingArgs, invoked, helpCalls>>

NextDispatch ==
    \/ HandleNoArgs
    \/ HandleHelp
    \/ HandleUnknown
    \/ HandleMissing
    \/ HandleInvoke
    \/ InvokeCanceled
    \/ InvokeFailed
    \/ InvokeSucceeded

SpecDispatch == InitDispatch /\ [][NextDispatch]_vars

(***************************************************************************)
(* cmd/fileupload.go: the file prompt and the validation of the paths.     *)
(***************************************************************************)
\* the characters a user may type at the prompt
Alphabet == {"a", "b", "c", ",", " "}

\* the lines of at most MaxLine characters
Lines == UNION {[1..n -> Alphabet] : n \in 0..MaxLine}

\* the file system: os.Stat of a path ("a" is a file, "c" cannot be
\* examined, nothing else exists)
StatResult(path) ==
    IF path = <<"a">> THEN "ok"
    ELSE IF path = <<"c">> THEN "EACCES"
    ELSE "ENOENT"

\* os.IsNotExist(err) after os.Stat(path)
IsNotExist(path) == StatResult(path) = "ENOENT"

\* a loop that checks the fields as they are, without trimming them
RECURSIVE ClassifyUntrimmed(_, _, _)
ClassifyUntrimmed(fields, missingFiles, valid) ==
    IF fields = <<>>
    THEN [missing |-> missingFiles, valid |-> valid]
    ELSE LET filePath == Head(fields) IN
         IF filePath = <<>>
         THEN ClassifyUntrimmed(Tail(fields), missingFiles, valid)
         ELSE IF IsNotExist(filePath)
              THEN ClassifyUntrimmed(Tail(fields), Append(missingFiles, filePath), valid)
              ELSE ClassifyUntrimmed(Tail(fields), missingFiles, Append(valid, filePath))

\* the loop of ValidateAndGetFileList over the fields
RECURSIVE Classify(_, _, _)
Classify(fields, missingFiles, valid) ==
    IF fields = <<>>
    THEN [missing |-> missingFiles, valid |-> valid]
    ELSE LET filePath == TrimSpace(Head(fields)) IN
         IF filePath = <<>>
         THEN Classify(Tail(fields), missingFiles, valid)
         ELSE IF IsNotExist(filePath)
              THEN Classify(Tail(fields), Append(missingFiles, filePath), valid)
              ELSE Classify(Tail(fields), missingFiles, Append(valid, filePath))

\* the paths ValidateAndGetFileList calls os.Stat on
StatCalls(fp) ==
    LET c == Classify(FieldsFunc(fp), <<>>, <<>>) IN Len(c.missing) + Len(c.valid)

\* ValidateAndGetFileList: the valid files, or the error naming the missing
ValidateAndGetFileList(fp) ==
    LET c == Classify(FieldsFunc(fp), <<>>, <<>>) IN
    IF Len(c.missing) > 0
    THEN [files |-> <<>>,
          failed |-> TRUE,
          error |-> "file(s) do not exist or are not accessible: "
                        \o StrOf(Join(c.missing, <<",", " ">>))]
    ELSE [files |-> c.valid, failed |-> FALSE, error |-> "nil"]

\* config.IsFileUploadAPI: the API names that return upload parameters
IsFileUploadAPI(name) ==
    name \in {<<"g", "e", "t", "u", "p", "l", "o", "a", "d", "p", "a", "r", "a", "m",
                "s", "f", "o", "r", "i", "s", "o">>,
              <<"g", "e", "t", "u", "p", "l", "o", "a", "d", "p", "a", "r", "a", "m",
                "s", "f", "o", "r", "v", "o", "l", "u", "m", "e">>,
              <<"g", "e", "t", "u", "p", "l", "o", "a", "d", "p", "a", "r", "a", "m",
                "s", "f", "o", "r", "t", "e", "m", "p", "l", "a", "t", "e">>}

\* the api names the flow is entered with
ApiNames == {ApiIso.Name, ApiListVms.Name}

\* the keys UploadFiles requires under getuploadparams, in its order
requiredKeys == <<"postURL", "metadata", "signature", "expires">>

\* the value under response["getuploadparams"]: absent, a JSON null, a
\* string, or a map with some of the keys
ParamsValues ==
    {[kind |-> "absent", keys |-> {}],
     [kind |-> "nil", keys |-> {}],
     [kind |-> "string", keys |-> {}],
     [kind |-> "map", keys |-> {}],
     [kind |-> "map", keys |-> Range(requiredKeys)]}
    \cup {[kind |-> "map", keys |-> Range(requiredKeys) \ {k}] : k \in Range(requiredKeys)}

(***************************************************************************)
(* cmd/fileupload.go: PromptAndUploadFilesIfNeeded.                        *)
(***************************************************************************)
\* the flow is entered at the prompt with an api name and a response, or
\* ValidateAndGetFileList is called on its own with a string
InitUpload ==
    /\ activeSpinners = <<>>
    /\ created = 0
    /\ running = {}
    /\ suffix = <<>>
    /\ stopped = {}
    /\ halted = {}
    /\ pausedFrom = {}
    /\ prevOp = "none"
    /\ lastOp = "none"
    /\ arg = Nil
    /\ ret = Nil
    /\ typed = <<>>
    /\ args = <<>>
    /\ apiName = <<>>
    /\ apiArgs = <<>>
    /\ missingArgs = <<>>
    /\ invoked = <<>>
    /\ response = RespNil
    /\ err = ErrNone
    /\ output = <<>>
    /\ helpCalls = <<>>
    /\ promptCalls = <<>>
    /\ outcome = "running"
    /\ validation = NotValidated
    /\ validFiles = <<>>
    /\ spn = Nil
    /\ idx = 0
    /\ errored = 0
    /\ attempts = <<>>
    /\ results = <<>>
    /\ inFlight = 0
    /\ io = [stats |-> 0, opens |-> 0, temps |-> 0, sends |-> 0]
    /\ cancelledAt = 0
    /\ replies = <<>>
    /\ enc = EncIdle
    /\ activeBefore = <<>>
    /\ ProgressIdle
    /\ \/ /\ pc = "prompt"
          /\ HasShell \in BOOLEAN
          /\ apiArg \in ApiNames
          /\ upResponse \in ParamsValues
          /\ filePaths = <<>>
       \/ /\ pc = "validate"
          /\ HasShell = FALSE
          /\ apiArg = <<>>
          /\ upResponse = [kind |-> "absent", keys |-> {}]
          /\ filePaths \in Lines

\* what a step of the flow leaves alone besides the variables it names
CallerFrame ==
    UNCHANGED <<HasShell, histVars, typed, args, apiName, apiArgs, missingArgs,
                invoked, response, err, helpCalls, promptCalls, apiArg, upResponse,
                cancelledAt, activeBefore, progVars>>

\* the same for a step that is not the return of client.Do
StepFrame == CallerFrame /\ UNCHANGED replies

\* the same for a step that leaves uploadFile's locals alone as well
FlowFrame == StepFrame /\ UNCHANGED enc

\* a line of output, with whether the batch's spinner animates in run
Printed(line, run) == [line |-> line, animating |-> SpinnerActive(run, spn)]

\* ValidateAndGetFileList called on its own
ValidateCall ==
    /\ pc = "validate"
    /\ validation' = ValidateAndGetFileList(filePaths)
    /\ io' = [io EXCEPT !.stats = @ + StatCalls(filePaths)]
    /\ pc' = "done"
    /\ outcome' = IF validation'.failed THEN "MissingFiles" ELSE "Validated"
    /\ FlowFrame
    /\ UNCHANGED <<activeSpinners, created, running, suffix, ret, output, filePaths,
                   validFiles, spn, idx, errored, attempts, results, inFlight>>

\* no shell, or not an upload API: return
PromptSkip ==
    /\ pc = "prompt"
    /\ ~HasShell \/ ~IsFileUploadAPI(ToLower(apiArg))
    /\ pc' = "done"
    /\ outcome' = "Skipped"
    /\ FlowFrame
    /\ UNCHANGED <<activeSpinners, created, running, suffix, ret, output, filePaths,
                   validation, validFiles, spn, idx, errored, attempts, results,
                   inFlight, io>>

\* the prompt is printed and Scanln stores the first token of the line
PromptScan ==
    /\ pc = "prompt"
    /\ HasShell
    /\ IsFileUploadAPI(ToLower(apiArg))
    /\ output' = Append(output, Printed("Enter path of the file(s) to upload (comma-separated), leave empty to skip: ", running))
    /\ \E line \in Lines : filePaths' = Scanln(line)
    /\ pc' = "scanned"
    /\ FlowFrame
    /\ UNCHANGED <<activeSpinners, created, running, suffix, ret, outcome,
                   validation, validFiles, spn, idx, errored, attempts, results,
                   inFlight, io>>

\* nothing was typed: return
PromptEmpty ==
    /\ pc = "scanned"
    /\ filePaths = <<>>
    /\ pc' = "done"
    /\ outcome' = "Skipped"
    /\ FlowFrame
    /\ UNCHANGED <<activeSpinners, created, running, suffix, ret, output, filePaths,
                   validation, validFiles, spn, idx, errored, attempts, results,
                   inFlight, io>>

\* the paths are validated: an error or an empty list ends the flow, else
\* UploadFiles is called with the valid files
PromptValidate ==
    /\ pc = "scanned"
    /\ filePaths # <<>>
    /\ validation' = ValidateAndGetFileList(filePaths)
    /\ io' = [io EXCEPT !.stats = @ + StatCalls(filePaths)]
    /\ IF validation'.failed
       THEN /\ output' = Append(output, Printed(validation'.error, running))
            /\ pc' = "done"
            /\ outcome' = "MissingFiles"
            /\ UNCHANGED validFiles
       ELSE IF Len(validation'.files) = 0
       THEN /\ output' = Append(output, Printed("No valid files to upload.", running))
            /\ pc' = "done"
            /\ outcome' = "NoValidFiles"
            /\ UNCHANGED validFiles
       ELSE /\ validFiles' = validation'.files
            /\ pc' = "upload"
            /\ UNCHANGED <<output, outcome>>
    /\ FlowFrame
    /\ UNCHANGED <<activeSpinners, created, running, suffix, ret, filePaths, spn,
                   idx, errored, attempts, results, inFlight>>

(***************************************************************************)
(* cmd/fileupload.go: UploadFiles and uploadFile.                          *)
(***************************************************************************)
\* strings.Repeat
RECURSIVE Repeat(_, _)
Repeat(c, n) == IF n <= 0 THEN "" ELSE c \o Repeat(c, n - 1)

\* a bar that keeps its head at 100%
barArrowWithHead(pct) ==
    LET width == progressCharCount
        p == IF pct < 0 THEN 0 ELSE IF pct > 100 THEN 100 ELSE pct
        pos == (p * width) \div 100
    IN  "[" \o Repeat("=", pos) \o ">" \o Repeat(" ", width - pos - 1) \o "]"

\* barArrow: the progress bar of a percentage
barArrow(pct) ==
    LET width == progressCharCount
        p == IF pct < 0 THEN 0 ELSE IF pct > 100 THEN 100 ELSE pct
        pos == (p * width) \div 100
    IN  IF pos >= width
        THEN "[" \o Repeat("=", width) \o "]"
        ELSE "[" \o Repeat("=", pos) \o ">" \o Repeat(" ", width - pos - 1) \o "]"

\* the first required key the params map lacks, "" when it has them all
FirstMissingKey(keys) ==
    IF \E k \in 1..Len(requiredKeys) : requiredKeys[k] \notin keys
    THEN requiredKeys[CHOOSE k \in 1..Len(requiredKeys) :
                        /\ requiredKeys[k] \notin keys
                        /\ \A j \in 1..(k - 1) : requiredKeys[j] \in keys]
    ELSE ""

\* the HTTP status codes the upload server may answer with
StatusCodes == {200, 201, 204, 500}

\* UploadFiles up to its loop: the upload parameters are checked, then the
\* spinner is started; reflect.TypeOf of a nil value is nil and the call of
\* Kind on it panics
UploadFilesBegin ==
    /\ pc = "upload"
    /\ IF upResponse.kind = "absent"
          \/ (upResponse.kind # "nil" /\ upResponse.kind # "map")
       THEN /\ output' = Append(output, Printed("Invalid response format for getuploadparams.", running))
            /\ pc' = "done"
            /\ outcome' = "InvalidUploadParams"
            /\ UNCHANGED <<activeSpinners, created, running, suffix, ret, spn>>
       ELSE IF upResponse.kind = "nil"
       THEN /\ pc' = "panicked"
            /\ outcome' = "Panic"
            /\ UNCHANGED <<activeSpinners, created, running, suffix, ret, spn, output>>
       ELSE IF FirstMissingKey(upResponse.keys) # ""
       THEN /\ output' = Append(output, Printed("Missing required key '"
                                \o FirstMissingKey(upResponse.keys)
                                \o "' in getuploadparams response.", running))
            /\ pc' = "done"
            /\ outcome' = "InvalidUploadParams"
            /\ UNCHANGED <<activeSpinners, created, running, suffix, ret, spn>>
       ELSE /\ output' = Append(output, Printed("Uploading files for "
                                \o StrOf(apiArg) \o " : ["
                                \o StrOf(Join(validFiles, <<" ">>)) \o "]", running))
            /\ StartSpinner(uploadingMessage)
            /\ spn' = ret'
            /\ pc' = "loop"
            /\ UNCHANGED outcome
    /\ errored' = 0
    /\ idx' = 0
    /\ filePaths' = <<>>
    /\ FlowFrame
    /\ UNCHANGED <<validation, validFiles, attempts, results, inFlight, io>>

\* the head of the loop: the label names the file, uploadFile is called; a
\* write through a nil spinner panics
LoopNext ==
    /\ pc = "loop"
    /\ idx < Len(validFiles)
    /\ IF spn = Nil
       THEN /\ pc' = "panicked"
            /\ outcome' = "Panic"
            /\ UNCHANGED <<suffix, attempts>>
       ELSE /\ suffix' = [suffix EXCEPT ![spn] =
                            " uploading " \o Itoa(idx + 1) \o "/" \o Itoa(Len(validFiles))
                            \o " " \o StrOf(Base(validFiles[idx + 1])) \o "..."]
            /\ attempts' = Append(attempts, idx + 1)
            /\ pc' = "u_open"
            /\ UNCHANGED outcome
    /\ enc' = EncIdle
    /\ StepFrame
    /\ UNCHANGED <<activeSpinners, created, running, ret, output, filePaths,
                   validation, validFiles, spn, idx, errored, results, inFlight, io>>

\* the two emoji of the printed lines, by their short names (the strings of
\* this notation are ASCII)
SeeNoEvil == ":see_no_evil:"
CheckMark == ":white_check_mark:"

\* the loop is over: the spinner is stopped and the summary printed
LoopDone ==
    /\ pc = "loop"
    /\ idx = Len(validFiles)
    /\ StopSpinner(spn)
    /\ output' = Append(output,
            Printed(IF errored > 0
                    THEN SeeNoEvil \o " " \o Itoa(errored) \o " out of "
                            \o Itoa(Len(validFiles)) \o " files failed to upload."
                    ELSE "All files uploaded successfully.",
                    running'))
    /\ pc' = "done"
    /\ outcome' = "Done"
    /\ FlowFrame
    /\ UNCHANGED <<created, suffix, ret, filePaths, validation, validFiles, spn, idx,
                   errored, attempts, results, inFlight, io>>

\* a loop that gives up the batch at the first file that fails
FileFailedEndsBatch(e) ==
    /\ running' = SpinnerStart(SpinnerStop(running, spn), spn)
    /\ output' = Append(output,
            Printed("Error uploading " \o StrOf(validFiles[idx + 1]) \o " : " \o e,
                    SpinnerStop(running, spn)))
    /\ errored' = errored + 1
    /\ suffix' = [suffix EXCEPT ![spn] = " " \o uploadingMessage]
    /\ results' = Append(results, "failed")
    /\ idx' = Len(validFiles)
    /\ pc' = "loop"

\* a loop that prints the error of a failed file and does not count it
FileFailedUncounted(e) ==
    /\ running' = SpinnerStart(SpinnerStop(running, spn), spn)
    /\ output' = Append(output,
            Printed("Error uploading " \o StrOf(validFiles[idx + 1]) \o " : " \o e,
                    SpinnerStop(running, spn)))
    /\ UNCHANGED errored
    /\ suffix' = [suffix EXCEPT ![spn] = " " \o uploadingMessage]
    /\ results' = Append(results, "failed")
    /\ idx' = idx + 1
    /\ pc' = "loop"

\* uploadFile returned the error e: the loop halts the spinner, prints the
\* error, counts it, restores the label, restarts the spinner and goes on
FileFailed(e) ==
    /\ running' = SpinnerStart(SpinnerStop(running, spn), spn)
    /\ output' = Append(output,
            Printed("Error uploading " \o StrOf(validFiles[idx + 1]) \o " : " \o e,
                    SpinnerStop(running, spn)))
    /\ errored' = errored + 1
    /\ suffix' = [suffix EXCEPT ![spn] = " " \o uploadingMessage]
    /\ results' = Append(results, "failed")
    /\ idx' = idx + 1
    /\ pc' = "loop"

\* an uploadFile that prints the full bar while the spinner animates
FileSucceededNoHalt ==
    /\ running' = SpinnerStart(running, spn)
    /\ output' = Append(output,
            Printed("[" \o Itoa(idx + 1) \o "/" \o Itoa(Len(validFiles)) \o "] "
                        \o StrOf(Base(validFiles[idx + 1])) \o "\t" \o barArrow(100) \o " " \o CheckMark,
                    running))
    /\ suffix' = [suffix EXCEPT ![spn] = " " \o uploadingMessage]
    /\ results' = Append(results, "ok")
    /\ idx' = idx + 1
    /\ pc' = "loop"
    /\ UNCHANGED errored

\* uploadFile got 200 or 201: it halts the spinner, prints the full bar,
\* restores the label, restarts the spinner and returns nil
FileSucceeded ==
    /\ running' = SpinnerStart(SpinnerStop(running, spn), spn)
    /\ output' = Append(output,
            Printed("[" \o Itoa(idx + 1) \o "/" \o Itoa(Len(validFiles)) \o "] "
                        \o StrOf(Base(validFiles[idx + 1])) \o "\t" \o barArrow(100) \o " " \o CheckMark,
                    SpinnerStop(running, spn)))
    /\ suffix' = [suffix EXCEPT ![spn] = " " \o uploadingMessage]
    /\ results' = Append(results, "ok")
    /\ idx' = idx + 1
    /\ pc' = "loop"
    /\ UNCHANGED errored

\* what a step inside uploadFile leaves alone when it goes on to next
FileGoesOn(next) ==
    /\ pc' = next
    /\ UNCHANGED <<running, output, errored, suffix, results, idx>>

\* os.Open and in.Stat
FileOpen ==
    /\ pc = "u_open"
    /\ io' = [io EXCEPT !.opens = @ + 1]
    /\ \E r \in {"ok", "open", "stat"} :
        IF r = "ok" THEN FileGoesOn("u_temp")
        ELSE FileFailed(r \o " " \o StrOf(validFiles[idx + 1]) \o ": permission denied")
    /\ FlowFrame
    /\ UNCHANGED <<activeSpinners, created, ret, outcome, filePaths, validation,
                   validFiles, spn, attempts, inFlight>>

\* os.CreateTemp
FileTemp ==
    /\ pc = "u_temp"
    /\ io' = [io EXCEPT !.temps = @ + 1]
    /\ \E r \in {"ok", "createtemp"} :
        IF r = "ok"
        THEN /\ FileGoesOn("u_encode")
             /\ enc' = [enc EXCEPT !.steps = Append(@, "create")]
        ELSE /\ FileFailed(r \o ": no space left on device")
             /\ UNCHANGED enc
    /\ StepFrame
    /\ UNCHANGED <<activeSpinners, created, ret, outcome, filePaths, validation,
                   validFiles, spn, attempts, inFlight>>

\* the bytes of a part's header and of the closing boundary
PartHeaderLen == 3
TrailerLen == 2

\* the largest file, in bytes
MaxFileSize == 2

\* mw.CreateFormFile("file", ...): the header of the part is written
CreateFormFile(e) ==
    [e EXCEPT !.parts = Append(@, "file"),
              !.written = @ + PartHeaderLen,
              !.offset = @ + PartHeaderLen,
              !.steps = Append(@, "part")]

\* io.Copy(part, in): the n bytes of the file are written
Copy(e, n) ==
    [e EXCEPT !.written = @ + n, !.offset = @ + n, !.steps = Append(@, "copy")]

\* mw.Close(): the closing boundary is written
WriterClose(e) ==
    [e EXCEPT !.written = @ + TrailerLen,
              !.offset = @ + TrailerLen,
              !.closed = TRUE,
              !.steps = Append(@, "close")]

\* the multipart body is written to the temporary file: CreateFormFile,
\* io.Copy, Close
FileEncode ==
    /\ pc = "u_encode"
    /\ \E r \in {"ok", "createformfile", "copy", "close"}, n \in 0..MaxFileSize :
        IF r = "ok"
        THEN /\ FileGoesOn("u_measure")
             /\ enc' = WriterClose(Copy(CreateFormFile(enc), n))
        ELSE /\ FileFailed("write: " \o r \o ": no space left on device")
             /\ enc' = IF r = "createformfile" THEN enc
                        ELSE IF r = "copy" THEN CreateFormFile(enc)
                        ELSE Copy(CreateFormFile(enc), n)
    /\ StepFrame
    /\ UNCHANGED <<activeSpinners, created, ret, outcome, filePaths, validation,
                   validFiles, spn, attempts, inFlight, io>>

\* tmp.Seek(0, io.SeekEnd): the position is the end, which is the size
SeekEnd(e) ==
    [e EXCEPT !.offset = e.written, !.size = e.written, !.steps = Append(@, "measure")]

\* tmp.Seek(0, io.SeekStart)
SeekStart(e) == [e EXCEPT !.offset = 0, !.steps = Append(@, "rewind")]

\* an uploadFile that measures the size and leaves the position at the end
FileMeasureStaysAtEnd ==
    /\ pc = "u_measure"
    /\ \E r \in {"ok", "seek end", "seek start"} :
        IF r = "ok"
        THEN /\ FileGoesOn("u_request")
             /\ enc' = [SeekEnd(enc) EXCEPT !.steps = Append(@, "rewind")]
        ELSE /\ FileFailed(r \o ": invalid argument")
             /\ enc' = IF r = "seek end" THEN enc ELSE SeekEnd(enc)
    /\ StepFrame
    /\ UNCHANGED <<activeSpinners, created, ret, outcome, filePaths, validation,
                   validFiles, spn, attempts, inFlight, io>>

\* the size is measured (Seek to the end) and the file rewound
FileMeasure ==
    /\ pc = "u_measure"
    /\ \E r \in {"ok", "seek end", "seek start"} :
        IF r = "ok"
        THEN /\ FileGoesOn("u_request")
             /\ enc' = SeekStart(SeekEnd(enc))
        ELSE /\ FileFailed(r \o ": invalid argument")
             /\ enc' = IF r = "seek end" THEN enc ELSE SeekEnd(enc)
    /\ StepFrame
    /\ UNCHANGED <<activeSpinners, created, ret, outcome, filePaths, validation,
                   validFiles, spn, attempts, inFlight, io>>

\* http.NewRequest, the headers, and client.Do sends the request
FileSend ==
    /\ pc = "u_request"
    /\ \E r \in {"ok", "parse"} :
        IF r = "ok"
        THEN /\ inFlight' = inFlight + 1
             /\ io' = [io EXCEPT !.sends = @ + 1]
             /\ FileGoesOn("u_send")
             /\ enc' = [enc EXCEPT !.contentLength = enc.size,
                                    !.bodyFrom = enc.offset,
                                    !.steps = Append(@, "send")]
        ELSE /\ FileFailed(r \o ": invalid URL")
             /\ UNCHANGED <<inFlight, io, enc>>
    /\ StepFrame
    /\ UNCHANGED <<activeSpinners, created, ret, outcome, filePaths, validation,
                   validFiles, spn, attempts>>

\* the errors client.Do may return
TransportErrors == {"Post: connection reset by peer"}

\* the texts io.ReadAll may read from the body of a response
Bodies == {"", "signature expired"}

\* a check that takes every 2xx status for a success
StatusIs2xx(code) == code \div 100 = 2

\* the status check of uploadFile
StatusOK(code) == code = 200 \/ code = 201

\* client.Do returns: a transport error, or a response with a status code;
\* the body of a response is read when the status is not accepted; the
\* request's body was streamed from the temporary file's position to its
\* end, or, when the upload failed, possibly not at all
FileResponse ==
    /\ pc = "u_send"
    /\ inFlight' = inFlight - 1
    /\ \/ \E e \in TransportErrors :
            /\ FileFailed(e)
            /\ replies' = Append(replies, [file |-> idx + 1, transport |-> e,
                                            status |-> 0, body |-> "", returned |-> e])
       \/ \E code \in StatusCodes :
            IF StatusOK(code)
            THEN /\ FileSucceeded
                 /\ replies' = Append(replies, [file |-> idx + 1, transport |-> "nil",
                                                 status |-> code, body |-> "",
                                                 returned |-> "nil"])
            ELSE \E b \in Bodies :
                 LET e == "[" \o Itoa(idx + 1) \o "/" \o Itoa(Len(validFiles)) \o "] "
                            \o StrOf(Base(validFiles[idx + 1])) \o "\tupload failed: " \o b
                 IN  /\ FileFailed(e)
                     /\ replies' = Append(replies, [file |-> idx + 1, transport |-> "nil",
                                                     status |-> code, body |-> b,
                                                     returned |-> e])
    /\ \E n \in {0, enc.written - enc.bodyFrom} :
            /\ enc' = [enc EXCEPT !.streamed = n, !.offset = enc.bodyFrom + n]
            /\ results'[idx + 1] = "ok" => n = enc.written - enc.bodyFrom
    /\ CallerFrame
    /\ UNCHANGED <<activeSpinners, created, ret, outcome, filePaths, validation,
                   validFiles, spn, attempts, io>>

\* the caller cancels while a request is in flight: uploadFile built the
\* request without a context and UploadFiles reads no flag, so nothing of the
\* batch changes
Cancel ==
    /\ pc = "u_send"
    /\ cancelledAt = 0
    /\ cancelledAt' = idx + 1
    /\ UNCHANGED <<spinVars, histVars, dispVars, progVars, apiArg, upResponse,
                   filePaths, validation, validFiles, spn, idx, errored, attempts,
                   results, inFlight, io, replies, enc, activeBefore>>

NextUpload ==
    \/ Cancel
    \/ ValidateCall
    \/ PromptSkip
    \/ PromptScan
    \/ PromptEmpty
    \/ PromptValidate
    \/ UploadFilesBegin
    \/ LoopNext
    \/ LoopDone
    \/ FileOpen
    \/ FileTemp
    \/ FileEncode
    \/ FileMeasure
    \/ FileSend
    \/ FileResponse

SpecUpload == InitUpload /\ [][NextUpload]_vars

(***************************************************************************)
(* UploadFiles called on its own, in a session that may hold spinners of   *)
(* earlier calls.                                                          *)
(***************************************************************************)
\* the members of S in ascending order: the controller appends every handle
\* it creates, so its list is in the order of creation
Ascending(S) ==
    CHOOSE s \in [1..Cardinality(S) -> S] :
        \A i, j \in 1..Cardinality(S) : i < j => s[i] < s[j]

\* the label of a spinner an earlier call started
PriorLabel == " please wait..."

\* the validFiles arguments
BatchFiles == {<<>>, <<<<"a">>>>, <<<<"a">>, <<"c">>>>}

InitBatch ==
    /\ HasShell \in BOOLEAN
    /\ created \in 0..MaxSpinners
    /\ \E members \in SUBSET (1..created) : activeSpinners = Ascending(members)
    /\ running \in SUBSET Range(activeSpinners)
    /\ suffix = [h \in 1..created |-> PriorLabel]
    /\ stopped = {}
    /\ halted = {}
    /\ pausedFrom = {}
    /\ prevOp = "none"
    /\ lastOp = "none"
    /\ arg = Nil
    /\ ret = Nil
    /\ typed = <<>>
    /\ args = <<>>
    /\ apiName = <<>>
    /\ apiArgs = <<>>
    /\ missingArgs = <<>>
    /\ invoked = <<>>
    /\ response = RespNil
    /\ err = ErrNone
    /\ output = <<>>
    /\ helpCalls = <<>>
    /\ promptCalls = <<>>
    /\ outcome = "running"
    /\ pc = "upload"
    /\ apiArg = ApiIso.Name
    /\ upResponse \in ParamsValues
    /\ filePaths = <<>>
    /\ validation = NotValidated
    /\ validFiles \in BatchFiles
    /\ spn = Nil
    /\ idx = 0
    /\ errored = 0
    /\ attempts = <<>>
    /\ results = <<>>
    /\ inFlight = 0
    /\ io = [stats |-> 0, opens |-> 0, temps |-> 0, sends |-> 0]
    /\ cancelledAt = 0
    /\ replies = <<>>
    /\ enc = EncIdle
    /\ activeBefore = activeSpinners
    /\ ProgressIdle

NextBatch ==
    \/ Cancel
    \/ UploadFilesBegin
    \/ LoopNext
    \/ LoopDone
    \/ FileOpen
    \/ FileTemp
    \/ FileEncode
    \/ FileMeasure
    \/ FileSend
    \/ FileResponse

SpecBatch == InitBatch /\ [][NextBatch]_vars

(***************************************************************************)
(* The controller under arbitrary calls of its clients.                    *)
(***************************************************************************)
InitSpinner ==
    /\ HasShell \in BOOLEAN
    /\ activeSpinners = <<>>
    /\ created = 0
    /\ running = {}
    /\ suffix = <<>>
    /\ stopped = {}
    /\ halted = {}
    /\ pausedFrom = {}
    /\ prevOp = "none"
    /\ lastOp = "none"
    /\ arg = Nil
    /\ ret = Nil
    /\ DispatchIdle
    /\ UploadIdle
    /\ ProgressIdle

\* the bookkeeping of one call: what ran, and with which handle
Called(op, h) ==
    /\ prevOp' = lastOp
    /\ lastOp' = op
    /\ arg' = h

CallStart ==
    /\ created < MaxSpinners
    /\ StartSpinner(uploadingMessage)
    /\ UNCHANGED <<dispVars, upVars, progVars>>
    /\ Called("start", Nil)
    /\ UNCHANGED <<HasShell, stopped, halted, pausedFrom>>

CallStop ==
    \E waiter \in 0..created :
        /\ StopSpinner(waiter)
        /\ stopped' = stopped \cup ({waiter} \ {Nil})
        /\ UNCHANGED <<dispVars, upVars, progVars>>
    /\ Called("stop", waiter)
        /\ ret' = Nil
        /\ UNCHANGED <<HasShell, created, suffix, halted, pausedFrom>>

CallPause ==
    /\ PauseActiveSpinners
    /\ halted' = PauseTargets
    /\ pausedFrom' = Range(activeSpinners)
    /\ UNCHANGED <<dispVars, upVars, progVars>>
    /\ Called("pause", Nil)
    /\ UNCHANGED <<HasShell, created, suffix, stopped>>

CallResume ==
    /\ ResumePausedSpinners
    /\ UNCHANGED <<dispVars, upVars, progVars>>
    /\ Called("resume", Nil)
    /\ ret' = Nil
    /\ UNCHANGED <<HasShell, created, suffix, stopped, halted, pausedFrom>>

\* a client halts the handle it holds directly, as the upload loop does
CallHalt ==
    \E h \in 1..created :
        /\ running' = SpinnerStop(running, h)
        /\ UNCHANGED <<dispVars, upVars, progVars>>
    /\ Called("halt", h)
        /\ ret' = Nil
        /\ UNCHANGED <<HasShell, activeSpinners, created, suffix, stopped,
                       halted, pausedFrom>>

\* a client restarts the handle it holds directly, as the upload loop does
CallRestart ==
    \E h \in 1..created :
        /\ running' = SpinnerStart(running, h)
        /\ UNCHANGED <<dispVars, upVars, progVars>>
    /\ Called("restart", h)
        /\ ret' = Nil
        /\ UNCHANGED <<HasShell, activeSpinners, created, suffix, stopped,
                       halted, pausedFrom>>

NextSpinner ==
    \/ CallStart
    \/ CallStop
    \/ CallPause
    \/ CallResume
    \/ CallHalt
    \/ CallRestart

SpecSpinner == InitSpinner /\ [][NextSpinner]_vars

(***************************************************************************)
(* Claims about the spinner controller (checked under SpecSpinner).        *)
(***************************************************************************)
\* the handles a step restarted
Restarted == running' \ running

\* C4 as stated: a pause_all() followed at once by resume_all() keeps the
\* membership of the active set and restarts only the handles that pause
\* halted (so not a member that was already not animating before it).
C4_OnlyPausedRestarted ==
    [][(lastOp = "pause" /\ CallResume) =>
            /\ Range(activeSpinners') = pausedFrom
            /\ Restarted \subseteq halted]_vars

\* C4 amended: a pause_all() followed at once by resume_all() keeps the
\* active list as it was before the pause and restarts exactly the members
\* that do not animate: those the pause halted and those that were already
\* halted before it; a handle that was stopped and removed is not restarted.
C4_ResumeRestartsIdleMembers ==
    [][(lastOp = "pause" /\ CallResume) =>
            /\ activeSpinners' = activeSpinners
            /\ Range(activeSpinners') = pausedFrom
            /\ Restarted = pausedFrom \ running
            /\ halted \subseteq Restarted
            /\ Restarted \cap stopped = {}
            /\ pausedFrom \subseteq running']_vars

\* C4 witness: a resume ran right after a pause that halted one handle,
\* while another member had been halted directly before the pause, and
\* both animate afterwards.
C4_Witness ==
    /\ lastOp = "resume"
    /\ prevOp = "pause"
    /\ halted # {}
    /\ pausedFrom \ halted # {}
    /\ pausedFrom \subseteq running

\* C5: no handle StopSpinner was called with is in the active list; the
\* call halts it and removes it; resume_all() never restarts it; and a stop
\* of the empty handle or of an absent handle leaves the list unchanged.
C5_StoppedNeverActive ==
    [][/\ stopped' \cap Range(activeSpinners') = {}
       /\ CallStop =>
            /\ arg' # Nil => (arg' \notin running' /\ arg' \in stopped')
            /\ (arg' = Nil \/ arg' \notin Range(activeSpinners)) =>
                    activeSpinners' = activeSpinners
            /\ Range(activeSpinners') = Range(activeSpinners) \ {arg'}
       /\ CallResume => Restarted \cap stopped = {}]_vars

\* C5 witness: after a stop of a member, a resume restarted another member
\* while the stopped handle stays halted and outside the list.
C5_Witness ==
    /\ lastOp = "resume"
    /\ \E h \in stopped : h \notin running
    /\ Range(activeSpinners) # {}
    /\ prevOp = "halt"

(***************************************************************************)
(* Claims about the dispatch (checked under SpecDispatch).                 *)
(***************************************************************************)
\* the handler is past the resolution of the name
Resolved == pc \in {"invoking", "returned"} /\ Len(typed) > 0

\* the first token alone is not registered, the first two joined are
MergeCase ==
    /\ Len(typed) >= 2
    /\ ~InCache(ToLower(typed[1]))
    /\ InCache(ToLower(typed[1] \o typed[2]))

\* no lookup the resolver makes finds a registered name
NoLookupSucceeds ==
    /\ Len(typed) >= 1
    /\ ~InCache(ToLower(typed[1]))
    /\ Len(typed) >= 2 => ~InCache(ToLower(typed[1] \o typed[2]))

\* two tokens at least, and both lookups of the resolver fail
NeitherLookupSucceeds == Len(typed) >= 2 /\ NoLookupSucceeds

\* in the merge case the joined command is selected and the tokens from the
\* third onward are its arguments
MergeSelected ==
    (Resolved /\ MergeCase) =>
        /\ apiName = ToLower(typed[1] \o typed[2])
        /\ apiArgs = [k \in 1..(Len(typed) - 2) |-> typed[k + 2]]
        /\ \A k \in 1..Len(invoked) :
            /\ ToLower(invoked[k].name) = ToLower(typed[1] \o typed[2])
            /\ invoked[k].args = [j \in 1..(Len(typed) - 2) |-> typed[j + 2]]

\* C6 as stated: in the merge case the joined command is selected with the
\* tokens from the third onward as arguments, and when neither lookup
\* succeeds the outcome is UnknownCommand.
C6_MergeOrUnknown ==
    /\ MergeSelected
    /\ (pc = "returned" /\ NeitherLookupSucceeds) => outcome = "UnknownCommand"

\* C6 amended: in the merge case the joined command is selected with the
\* tokens from the third onward as arguments; when no lookup succeeds (the
\* first token alone and, with two tokens or more, the first two joined)
\* and no token is the literal -h the outcome is UnknownCommand, and with a
\* -h among the tokens the handler hands over to help instead.
C6_MergeOrUnknownUnlessHelp ==
    /\ MergeSelected
    /\ (pc = "returned" /\ NoLookupSucceeds) =>
            outcome = IF \E k \in 1..Len(typed) : typed[k] = TokHelp
                      THEN "Help"
                      ELSE "UnknownCommand"

\* C6 witness: three tokens, the first two merged into a registered name,
\* and the API called with the third token alone.
C6_Witness ==
    /\ pc = "invoking"
    /\ Len(typed) = 3
    /\ MergeCase
    /\ Len(invoked) = 1
    /\ invoked[1].args = <<typed[3]>>

\* s starts with prefix, position by position
StartsWith(s, prefix) ==
    /\ Len(s) >= Len(prefix)
    /\ \A k \in 1..Len(prefix) : s[k] = prefix[k]

\* C7: the validator's result is, in registry order, the required names
\* (stored token without '=') that no argument token both containing '='
\* and starting with the name provides; id= and name= required with id=5
\* given yields name alone, and idx=5 provides id as well.
C7_MissingExactly ==
    (Resolved /\ (outcome = "MissingRequiredArgs" \/ invoked # <<>>)) =>
        LET api == CacheGet(apiName)
            names == [k \in 1..Len(api.RequiredArgs) |->
                        SelectSeq(api.RequiredArgs[k], LAMBDA c : c # "=")]
            given(n) == \E k \in 1..Len(apiArgs) :
                            /\ \E j \in 1..Len(apiArgs[k]) : apiArgs[k][j] = "="
                            /\ StartsWith(apiArgs[k], n)
        IN  /\ missingArgs = SelectSeq(names, LAMBDA n : ~given(n))
            /\ (api = ApiStopVm /\ apiArgs \in {<<TokId>>, <<TokIdx>>}) =>
                    missingArgs = << <<"n", "a", "m", "e">> >>

\* C7 witness: stopvm idx=5 was typed and name alone is reported missing.
C7_Witness ==
    /\ outcome = "MissingRequiredArgs"
    /\ apiArgs = <<TokIdx>>
    /\ missingArgs = << <<"n", "a", "m", "e">> >>
    /\ output = << <<"Missing required parameters", missingArgs>> >>

\* C8: when the run ends in UnknownCommand or the validator reports a
\* missing required argument, NewAPIRequest was never called and the upload
\* prompt was never entered: the handler has returned.
C8_NoCallOnUnknownOrMissing ==
    /\ (outcome \in {"UnknownCommand", "MissingRequiredArgs"} \/ Len(missingArgs) > 0) =>
            /\ invoked = <<>>
            /\ promptCalls = <<>>
            /\ pc = "returned"
    /\ invoked # <<>> =>
            /\ InCache(apiName)
            /\ MissingArgs(CacheGet(apiName), apiArgs) = <<>>

\* C8 witness: a registered command with both required arguments missing
\* returned without a call.
C8_Witness ==
    /\ pc = "returned"
    /\ outcome = "MissingRequiredArgs"
    /\ Len(missingArgs) = 2
    /\ invoked = <<>>

(***************************************************************************)
(* cmd/network.go: PromptAndUploadFileIfNeeded, the prompt flow that        *)
(* validates the paths itself; the batch that follows its validation is    *)
(* the loop modelled with UploadFiles and the flow is followed up to it.   *)
(***************************************************************************)
\* the flow is entered at its prompt with an api name and a response
InitPromptSingle ==
    /\ activeSpinners = <<>>
    /\ created = 0
    /\ running = {}
    /\ suffix = <<>>
    /\ ret = Nil
    /\ stopped = {}
    /\ halted = {}
    /\ pausedFrom = {}
    /\ prevOp = "none"
    /\ lastOp = "none"
    /\ arg = Nil
    /\ typed = <<>>
    /\ args = <<>>
    /\ apiName = <<>>
    /\ apiArgs = <<>>
    /\ missingArgs = <<>>
    /\ invoked = <<>>
    /\ response = RespNil
    /\ err = ErrNone
    /\ output = <<>>
    /\ helpCalls = <<>>
    /\ promptCalls = <<>>
    /\ outcome = "running"
    /\ validation = NotValidated
    /\ validFiles = <<>>
    /\ spn = Nil
    /\ idx = 0
    /\ errored = 0
    /\ attempts = <<>>
    /\ results = <<>>
    /\ inFlight = 0
    /\ io = [stats |-> 0, opens |-> 0, temps |-> 0, sends |-> 0]
    /\ cancelledAt = 0
    /\ replies = <<>>
    /\ enc = EncIdle
    /\ activeBefore = <<>>
    /\ ProgressIdle
    /\ pc = "prompt"
    /\ HasShell \in BOOLEAN
    /\ apiArg \in ApiNames
    /\ upResponse \in ParamsValues
    /\ filePaths = <<>>

\* no shell, or not one of the names the flow compares with: return
SingleSkip ==
    /\ pc = "prompt"
    /\ ~HasShell \/ ToLower(apiArg) \notin UploadApiNames
    /\ pc' = "done"
    /\ outcome' = "Skipped"
    /\ FlowFrame
    /\ UNCHANGED <<activeSpinners, created, running, suffix, ret, output, filePaths,
                   validation, validFiles, spn, idx, errored, attempts, results,
                   inFlight, io>>

\* the prompt is printed and Scanln stores the first token of the line
SingleScan ==
    /\ pc = "prompt"
    /\ HasShell
    /\ ToLower(apiArg) \in UploadApiNames
    /\ output' = Append(output, Printed("Enter path of the file(s) to upload (comma-separated): ", running))
    /\ \E line \in Lines : filePaths' = Scanln(line)
    /\ pc' = "scanned"
    /\ FlowFrame
    /\ UNCHANGED <<activeSpinners, created, running, suffix, ret, outcome,
                   validation, validFiles, spn, idx, errored, attempts, results,
                   inFlight, io>>

\* whatever was stored is split and checked: missing files or an empty list
\* are printed and end the flow, else the batch follows
SingleValidate ==
    /\ pc = "scanned"
    /\ LET c == Classify(FieldsFunc(filePaths), <<>>, <<>>) IN
        /\ io' = [io EXCEPT !.stats = @ + Len(c.missing) + Len(c.valid)]
        /\ IF Len(c.missing) > 0
           THEN /\ validation' = [files |-> <<>>, failed |-> TRUE,
                                  error |-> "File(s) do not exist or are not accessible: "
                                            \o StrOf(Join(c.missing, <<",", " ">>))]
                /\ output' = Append(output, Printed(validation'.error, running))
                /\ pc' = "done"
                /\ outcome' = "MissingFiles"
                /\ UNCHANGED validFiles
           ELSE IF Len(c.valid) = 0
           THEN /\ validation' = [files |-> <<>>, failed |-> FALSE, error |-> "nil"]
                /\ output' = Append(output, Printed("No valid files to upload.", running))
                /\ pc' = "done"
                /\ outcome' = "NoValidFiles"
                /\ UNCHANGED validFiles
           ELSE /\ validation' = [files |-> c.valid, failed |-> FALSE, error |-> "nil"]
                /\ validFiles' = c.valid
                /\ pc' = "batch"
                /\ UNCHANGED <<output, outcome>>
    /\ FlowFrame
    /\ UNCHANGED <<activeSpinners, created, running, suffix, ret, filePaths, spn,
                   idx, errored, attempts, results, inFlight>>

NextPromptSingle ==
    \/ SingleSkip
    \/ SingleScan
    \/ SingleValidate

SpecPromptSingle == InitPromptSingle /\ [][NextPromptSingle]_vars

(***************************************************************************)
(* cmd/network.go: barArrow called on its own with any percentage.         *)
(***************************************************************************)
\* how far below 0 and above 100 the percentages handed to barArrow go
MaxOver == 10

\* barArrow is about to be called with some percentage
InitBar ==
    /\ HasShell = TRUE
    /\ activeSpinners = <<>>
    /\ created = 0
    /\ running = {}
    /\ suffix = <<>>
    /\ ret = Nil
    /\ stopped = {}
    /\ halted = {}
    /\ pausedFrom = {}
    /\ prevOp = "none"
    /\ lastOp = "none"
    /\ arg = Nil
    /\ DispatchIdle
    /\ UploadIdle
    /\ reader = "none"
    /\ total = 0
    /\ read = 0
    /\ percent = NoPercent
    /\ prevPercent = NoPercent
    /\ barPct \in (0 - MaxOver)..(100 + MaxOver)
    /\ bar = ""

\* barArrow returns
BarArrowCall ==
    /\ bar = ""
    /\ bar' = barArrow(barPct)
    /\ UNCHANGED <<reader, total, read, percent, prevPercent, barPct,
                   spinVars, histVars, dispVars, upVars>>

NextBar ==
    \/ BarArrowCall

SpecBar == InitBar /\ [][NextBar]_vars

(***************************************************************************)
(* Claims about the upload flow (checked under SpecUpload).                *)
(***************************************************************************)
(* float64 arithmetic, computed: a natural number is a sequence of limbs,  *)
(* least significant first; a float64 value is m * 2^e with m below 2^53,  *)
(* and every operation rounds its exact result to the nearest such value,  *)
(* ties to the even significand, as the hardware does.                     *)
(***************************************************************************)
LimbBits == 15
LimbBase == 2 ^ LimbBits
SignificandBits == 53

\* without the most significant limbs that are zero
RECURSIVE Norm(_)
Norm(x) == IF x # <<>> /\ x[Len(x)] = 0 THEN Norm(SubSeq(x, 1, Len(x) - 1)) ELSE x

RECURSIVE BigFromInt(_)
BigFromInt(n) == IF n = 0 THEN <<>> ELSE <<n % LimbBase>> \o BigFromInt(n \div LimbBase)

RECURSIVE BigToInt(_)
BigToInt(x) == IF x = <<>> THEN 0 ELSE Head(x) + LimbBase * BigToInt(Tail(x))

RECURSIVE BigAdd(_, _, _)
BigAdd(x, y, carry) ==
    IF x = <<>> /\ y = <<>>
    THEN IF carry = 0 THEN <<>> ELSE <<carry>>
    ELSE LET a == IF x = <<>> THEN 0 ELSE Head(x)
             b == IF y = <<>> THEN 0 ELSE Head(y)
             v == a + b + carry
         IN  <<v % LimbBase>>
                \o BigAdd(IF x = <<>> THEN x ELSE Tail(x),
                          IF y = <<>> THEN y ELSE Tail(y), v \div LimbBase)

\* x * c + carry for a limb c
RECURSIVE BigMulLimb(_, _, _)
BigMulLimb(x, c, carry) ==
    IF x = <<>>
    THEN IF carry = 0 THEN <<>> ELSE <<carry>>
    ELSE LET v == Head(x) * c + carry
         IN  <<v % LimbBase>> \o BigMulLimb(Tail(x), c, v \div LimbBase)

RECURSIVE BigMul(_, _)
BigMul(x, y) ==
    IF y = <<>> THEN <<>>
    ELSE Norm(BigAdd(BigMulLimb(x, Head(y), 0), <<0>> \o BigMul(x, Tail(y)), 0))

\* quotient and remainder of x by a divisor d of at most one limb
RECURSIVE BigDivMod(_, _)
BigDivMod(x, d) ==
    IF x = <<>> THEN [q |-> <<>>, r |-> 0]
    ELSE LET t == BigDivMod(Tail(x), d)
             v == t.r * LimbBase + Head(x)
         IN  [q |-> <<v \div d>> \o t.q, r |-> v % d]

RECURSIVE IntBitLen(_)
IntBitLen(n) == IF n = 0 THEN 0 ELSE 1 + IntBitLen(n \div 2)

BitLen(x) == IF x = <<>> THEN 0 ELSE (Len(x) - 1) * LimbBits + IntBitLen(x[Len(x)])

BigIsOdd(x) == x # <<>> /\ Head(x) % 2 = 1

\* x without its s lowest bits, and whether a bit that went was set
RECURSIVE DropBits(_, _, _)
DropBits(x, s, sticky) ==
    IF s = 0 THEN [q |-> x, sticky |-> sticky]
    ELSE LET c == IF s > LimbBits THEN LimbBits ELSE s
             d == BigDivMod(x, 2 ^ c)
         IN  DropBits(Norm(d.q), s - c, sticky \/ d.r # 0)

\* the float64 nearest to (n + f) * 2^e, where 0 <= f < 1 and f > 0 iff sticky
RoundToDouble(n, sticky, e) ==
    IF BitLen(n) <= SignificandBits THEN [m |-> n, e |-> e]
    ELSE LET s == BitLen(n) - SignificandBits
             a == DropBits(n, s - 1, sticky)
             b == BigDivMod(a.q, 2)
             q == Norm(b.q)
             up == b.r = 1 /\ (a.sticky \/ BigIsOdd(q))
         IN  [m |-> IF up THEN BigAdd(q, <<1>>, 0) ELSE q, e |-> e + s]

\* float64(n) for an integer 0 <= n < 2^30
FromInt(n) == RoundToDouble(BigFromInt(n), FALSE, 0)

\* x * y
FMul(x, y) == RoundToDouble(BigMul(x.m, y.m), FALSE, x.e + y.e)

\* the limbs the dividend is extended by: the quotient keeps more bits than
\* a significand has
GuardLimbs == 5

\* x / y for a divisor y whose significand is a limb
FDiv(x, y) ==
    LET scaled == IF x.m = <<>> THEN <<>> ELSE [k \in 1..GuardLimbs |-> 0] \o x.m
        d == BigDivMod(scaled, BigToInt(y.m))
    IN  RoundToDouble(Norm(d.q), d.r # 0, x.e - y.e - GuardLimbs * LimbBits)

\* int(x) for x >= 0: the fraction is cut off
Trunc(x) ==
    IF x.e >= 0 THEN BigToInt(x.m) * 2 ^ x.e
    ELSE BigToInt(DropBits(x.m, -x.e, FALSE).q)

(***************************************************************************)
(* cmd/network.go: progressBody (the batch upload) and progressReader (the *)
(* single-file upload), the streams that report the progress of a body.    *)
(***************************************************************************)
MaxSize == 100
MaxChunk == 4

\* progressBody.Read's pct := int(float64(pb.read) * 100 / float64(pb.total))
progressBodyPct(r, t) == Trunc(FDiv(FMul(FromInt(r), FromInt(100)), FromInt(t)))

\* progressReader.Read's percent := int(float64(pr.read) / float64(pr.total) * 100)
progressReaderPercent(r, t) == Trunc(FMul(FDiv(FromInt(r), FromInt(t)), FromInt(100)))

\* a body of some size is wrapped in one of the two streams
InitProgress ==
    /\ HasShell = TRUE
    /\ activeSpinners = <<>>
    /\ created = 0
    /\ running = {}
    /\ suffix = <<>>
    /\ ret = Nil
    /\ stopped = {}
    /\ halted = {}
    /\ pausedFrom = {}
    /\ prevOp = "none"
    /\ lastOp = "none"
    /\ arg = Nil
    /\ DispatchIdle
    /\ UploadIdle
    /\ reader \in {"progressBody", "progressReader"}
    /\ total \in 1..MaxSize
    /\ read = 0
    /\ percent = NoPercent
    /\ prevPercent = NoPercent
    /\ barPct = 0
    /\ bar = ""

\* progressBody.Read: the file hands over n > 0 bytes (with n = 0, at the
\* end of the file, nothing is computed and nothing reported)
ProgressBodyRead ==
    /\ reader = "progressBody"
    /\ \E n \in 1..MaxChunk :
        /\ read + n <= total
        /\ read' = read + n
        /\ percent' = progressBodyPct(read + n, total)
    /\ prevPercent' = percent
    /\ UNCHANGED <<reader, total, barPct, bar, spinVars, histVars, dispVars, upVars>>

\* progressReader.Read: the same with the other formula
ProgressReaderRead ==
    /\ reader = "progressReader"
    /\ \E n \in 1..MaxChunk :
        /\ read + n <= total
        /\ read' = read + n
        /\ percent' = progressReaderPercent(read + n, total)
    /\ prevPercent' = percent
    /\ UNCHANGED <<reader, total, barPct, bar, spinVars, histVars, dispVars, upVars>>

NextProgress ==
    \/ ProgressBodyRead
    \/ ProgressReaderRead

SpecProgress == InitProgress /\ [][NextProgress]_vars

(***************************************************************************)
\* the positions inside uploadFile
InFile == pc \in {"u_open", "u_temp", "u_encode", "u_measure", "u_request", "u_send"}

\* the files whose upload returned a failure
Failures == {k \in 1..Len(results) : results[k] = "failed"}

\* the last line printed
LastLine == output[Len(output)].line

\* C1: the files of the batch are attempted in input order, each once and
\* none again, with at most one request in flight, and only for the file
\* being attempted; when the batch is done every file was attempted and has
\* its result, whatever failed before it.
C1_EachFileOnceInOrder ==
    /\ \A k \in 1..Len(attempts) : attempts[k] = k
    /\ Len(attempts) <= Len(validFiles)
    /\ Len(attempts) = IF InFile THEN idx + 1 ELSE idx
    /\ Len(results) = idx
    /\ inFlight \in {0, 1}
    /\ inFlight = 1 <=> pc = "u_send"
    /\ io.sends <= Len(attempts)
    /\ io.opens = Len(attempts) - (IF pc = "u_open" THEN 1 ELSE 0)
    /\ outcome = "Done" =>
        /\ Len(attempts) = Len(validFiles)
        /\ Len(results) = Len(validFiles)

\* C1 witness: a batch of three files is done; the second got a status 500
\* and the third was attempted and uploaded all the same.
C1_Witness ==
    /\ outcome = "Done"
    /\ attempts = <<1, 2, 3>>
    /\ results = <<"ok", "failed", "ok">>
    /\ io.sends = 3
    /\ replies[2].status = 500
    /\ output[4].line = "Error uploading c : [2/3] c\tupload failed: signature expired"
    /\ LastLine = ":see_no_evil: 1 out of 3 files failed to upload."

\* C2: during the batch the error counter is the number of failed uploads
\* so far; when the batch is done it is between 0 and n, the summary is the
\* all-succeeded line exactly when no upload failed and else names the
\* number of failures and n.
C2_ErrorCountAndSummary ==
    /\ (pc = "loop" \/ InFile \/ outcome = "Done") =>
        /\ errored = Cardinality(Failures)
        /\ errored <= Len(validFiles)
    /\ outcome = "Done" =>
        /\ Cardinality(Failures) = 0 <=> LastLine = "All files uploaded successfully."
        /\ Cardinality(Failures) > 0 =>
                LastLine = SeeNoEvil \o " " \o Itoa(Cardinality(Failures)) \o " out of "
                            \o Itoa(Len(validFiles)) \o " files failed to upload."

\* C2 witness: a batch of three files is done and two of them failed.
C2_Witness ==
    /\ outcome = "Done"
    /\ Len(validFiles) = 3
    /\ Cardinality(Failures) = 2
    /\ LastLine = ":see_no_evil: 2 out of 3 files failed to upload."

\* the entries of a comma-separated string: the pieces between the commas,
\* each without the spaces around it, the empty ones left out
CommaAt(s) == {0, Len(s) + 1} \cup {k \in 1..Len(s) : s[k] = ","}

Piece(s, from, to) ==
    LET inner == {k \in (from + 1)..(to - 1) : s[k] # " "} IN
    IF inner = {} THEN <<>>
    ELSE LET lo == CHOOSE k \in inner : \A j \in inner : k <= j
             hi == CHOOSE k \in inner : \A j \in inner : k >= j
         IN  [k \in 1..(hi - lo + 1) |-> s[lo + k - 1]]

RECURSIVE PiecesFrom(_, _)
PiecesFrom(s, from) ==
    IF from > Len(s) THEN <<>>
    ELSE LET to == CHOOSE k \in CommaAt(s) :
                        k > from /\ \A j \in CommaAt(s) : j > from => k <= j
             piece == Piece(s, from, to)
         IN  (IF piece = <<>> THEN <<>> ELSE <<piece>>) \o PiecesFrom(s, to)

Entries(s) == PiecesFrom(s, 0)

\* ValidateAndGetFileList was called and has returned, and its caller has
\* not yet handed the list to UploadFiles
ValidationRan ==
    \/ pc = "upload"
    \/ pc = "done" /\ outcome \in {"MissingFiles", "NoValidFiles", "Validated"}

\* C3: the input is split on commas, the entries trimmed and the empty ones
\* dropped; when an entry does not exist the result is the error that lists
\* the entries that do not exist, all of them and no other, no list of valid
\* files is returned and no file is opened or uploaded; else the entries
\* are returned in order.
C3_ValidationFailsFast ==
    ValidationRan =>
        LET entries == Entries(filePaths)
            missing == SelectSeq(entries, LAMBDA e : StatResult(e) = "ENOENT")
        IN  IF missing # <<>>
            THEN /\ validation.failed
                 /\ validation.files = <<>>
                 /\ validation.error = "file(s) do not exist or are not accessible: "
                                        \o StrOf(Join(missing, <<",", " ">>))
                 /\ outcome = "MissingFiles"
                 /\ pc = "done"
                 /\ validFiles = <<>>
                 /\ attempts = <<>>
                 /\ io.opens = 0 /\ io.temps = 0 /\ io.sends = 0
                 /\ created = 0
            ELSE /\ ~validation.failed
                 /\ validation.files = entries

\* C3 witness: for "a, ,b", where a exists and b does not, the error names
\* b alone and the empty middle entry is no file.
C3_Witness ==
    /\ pc = "done"
    /\ filePaths = <<"a", ",", " ", ",", "b">>
    /\ validation.failed
    /\ validation.error = "file(s) do not exist or are not accessible: b"
    /\ io.stats = 2

\* the response carries no usable upload parameters: no value under the
\* key, a value that is no map, or a map without one of the four keys
InvalidParams ==
    \/ upResponse.kind # "map"
    \/ ~(Range(requiredKeys) \subseteq upResponse.keys)

\* UploadFiles was called and is past the check of the parameters
ParamsChecked == pc \in {"loop", "done", "panicked"} \/ InFile

\* C9: when the response carries no usable upload parameters the upload is
\* aborted with InvalidUploadParams before anything else: no file opened,
\* no temporary file, no request, no spinner started, no file attempted.
C9_InvalidParamsAbort ==
    (validFiles # <<>> /\ ParamsChecked /\ InvalidParams) =>
        /\ outcome = "InvalidUploadParams"
        /\ pc = "done"
        /\ io.opens = 0 /\ io.temps = 0 /\ io.sends = 0
        /\ created = 0 /\ spn = Nil /\ activeSpinners = <<>>
        /\ attempts = <<>>

\* C9, what holds: the same, for every such response but the one whose
\* value under the key is a JSON null, where UploadFiles panics.
C9_InvalidParamsAbortUnlessNull ==
    (validFiles # <<>> /\ ParamsChecked /\ InvalidParams) =>
        /\ outcome = IF upResponse.kind = "nil" THEN "Panic" ELSE "InvalidUploadParams"
        /\ pc = IF upResponse.kind = "nil" THEN "panicked" ELSE "done"
        /\ io.opens = 0 /\ io.temps = 0 /\ io.sends = 0
        /\ created = 0 /\ spn = Nil /\ activeSpinners = <<>>
        /\ attempts = <<>>

(***************************************************************************)
(* Claims about the progress percentage (checked under SpecProgress).      *)
(***************************************************************************)
\* C10: after k of S bytes were read the reported percentage is
\* floor(k * 100 / S); it never goes down from one read to the next, it
\* stays within 0..100, and it is 100 when k = S.
C10_PercentIsFloor ==
    read > 0 =>
        /\ percent = (read * 100) \div total
        /\ prevPercent <= percent
        /\ percent \in 0..100
        /\ read = total => percent = 100

\* C10, what holds: progressBody reports floor(k * 100 / S); progressReader
\* reports that or one less; both never go down, stay within 0..100 and
\* report 100 when k = S.
C10_PercentIsFloorOrOneLess ==
    read > 0 =>
        /\ reader = "progressBody" => percent = (read * 100) \div total
        /\ reader = "progressReader" =>
                percent \in {(read * 100) \div total, (read * 100) \div total - 1}
        /\ prevPercent <= percent
        /\ percent \in 0..100
        /\ read = total => percent = 100

\* C10: progressReader has read 29 of 50 bytes and reports 57, not 58.
C10_ReaderOneLess ==
    /\ reader = "progressReader"
    /\ total = 50
    /\ read = 29
    /\ percent = 57

(***************************************************************************)
(* Claims about the progress bar (checked under SpecBar).                  *)
(***************************************************************************)
\* n times the character c
RECURSIVE Run(_, _)
Run(c, n) == IF n = 0 THEN "" ELSE Run(c, n - 1) \o c

\* the percentage with values below 0 taken as 0 and above 100 as 100
Clamped(p) == IF p < 0 THEN 0 ELSE IF p > 100 THEN 100 ELSE p

\* C11: the bar of a percentage has 24 characters between '[' and ']':
\* floor(pct * 24 / 100) times '=', one '>' and spaces; at 0% it is '[>',
\* 23 spaces and ']'; at 100%, and only there, it is 24 times '=' with no
\* head.
C11_BarShape ==
    bar # "" =>
        LET p == Clamped(barPct)
            eq == (p * 24) \div 100
        IN  /\ Len(bar) = 26
            /\ p < 100 => bar = "[" \o Run("=", eq) \o ">" \o Run(" ", 23 - eq) \o "]"
            /\ p = 100 <=> bar = "[========================]"
            /\ p = 0 => bar = "[>                       ]"

\* C11 witness: the bar of 50% is twelve '=', the head and eleven spaces.
C11_Witness ==
    /\ barPct = 50
    /\ bar = "[============>           ]"

(***************************************************************************)
(* Claims about cancellation during the batch (checked under SpecUpload).  *)
(***************************************************************************)
\* C12: when the caller cancels during the upload of a file, that upload is
\* abandoned and not tried again, no later file of the batch is attempted,
\* and the cancelled upload is neither printed as an error nor counted.
C12_CancelEndsBatch ==
    cancelledAt # 0 =>
        /\ Len(attempts) = cancelledAt
        /\ Len(results) >= cancelledAt => results[cancelledAt] = "cancelled"
        /\ errored = Cardinality({k \in Failures : k # cancelledAt})

(***************************************************************************)
(* Claims about the routing to the file prompt (checked under SpecDispatch)*)
(***************************************************************************)
\* the get-upload-parameters calls for ISO, for volume and for template
UploadParamsCalls == {ToLower(TokIso), ToLower(TokTemplate),
                      <<"g", "e", "t", "u", "p", "l", "o", "a", "d", "p", "a", "r", "a",
                        "m", "s", "f", "o", "r", "v", "o", "l", "u", "m", "e">>}

\* NewAPIRequest was called and returned a non-empty response and no error
SucceededNonEmpty == invoked # <<>> /\ err = ErrNone /\ response.len > 0

\* C13: a request enters the file prompt at most once, and it enters it
\* exactly when the call succeeded with a non-empty response, the session
\* is interactive and the lower-cased API name is a get-upload-parameters
\* call for ISO, volume or template.
C13_PromptIffEligible ==
    pc = "returned" =>
        /\ Len(promptCalls) <= 1
        /\ promptCalls # <<>> <=>
                (SucceededNonEmpty /\ HasShell /\ apiName \in UploadParamsCalls)

\* C13, what holds: the same with the names the handler compares with,
\* which do not include the call for template.
C13_PromptIffHandlerName ==
    pc = "returned" =>
        /\ Len(promptCalls) <= 1
        /\ promptCalls # <<>> <=>
                (SucceededNonEmpty /\ HasShell /\ apiName \in UploadParamsCalls
                    /\ apiName # ToLower(TokTemplate))

(***************************************************************************)
(* Claims about pause_all and start (checked under SpecSpinner).           *)
(***************************************************************************)
\* C14: pause_all halts every animating member, removes none from the
\* active set, and returns the number of handles it halted; members that
\* were not animating are not counted.
C14_PauseReturnsHalted ==
    lastOp = "pause" =>
        /\ Range(activeSpinners) \cap running = {}
        /\ Range(activeSpinners) = pausedFrom
        /\ ret = Cardinality(halted)

\* C14, what holds: the same, but the number returned is the length of the
\* active list, whatever was animating.
C14_PauseReturnsLength ==
    lastOp = "pause" =>
        /\ Range(activeSpinners) \cap running = {}
        /\ Range(activeSpinners) = pausedFrom
        /\ ret = Len(activeSpinners)

\* C15: start(label) in an interactive session returns a new handle that is
\* animating and carries the label, and appends exactly that handle to the
\* active set; every other handle's membership and animation stay as they
\* were. Without a shell it returns the empty handle and changes nothing.
C15_StartFrame ==
    [][lastOp' = "start" =>
        IF HasShell
        THEN /\ ret' # Nil
             /\ ret' \notin 1..created
             /\ ret' \notin Range(activeSpinners)
             /\ activeSpinners' = Append(activeSpinners, ret')
             /\ ret' \in running'
             /\ running' \ {ret'} = running
             /\ suffix'[ret'] = " " \o uploadingMessage
             /\ \A h \in 1..created : suffix'[h] = suffix[h]
        ELSE /\ ret' = Nil
             /\ UNCHANGED <<activeSpinners, running, created, suffix>>]_vars

\* C15 witness: a second start while the first handle, halted directly, is
\* a member that does not animate: it stays so.
C15_Witness ==
    /\ HasShell
    /\ lastOp = "start"
    /\ ret = 2
    /\ activeSpinners = <<1, 2>>
    /\ running = {2}

(***************************************************************************)
(* Claims about help and errors in dispatch (checked under SpecDispatch).  *)
(***************************************************************************)
\* the literal -h was typed as one of the tokens
HelpTyped == \E k \in 1..Len(typed) : typed[k] = <<"-", "h">>

\* the name help is rendered for: the first token, or the first two joined
\* when the first alone is not registered and a second exists, lower-cased
BestEffortName ==
    IF Len(typed) >= 2 /\ ~InCache(ToLower(typed[1]))
    THEN ToLower(typed[1] \o typed[2])
    ELSE ToLower(typed[1])

\* C16: with the literal -h anywhere among the tokens the handler hands over
\* to help, once, for the best-effort resolved name, registered or not; the
\* API is not called, no missing argument is reported and nothing else is
\* printed.
C16_HelpShortCircuits ==
    (HelpTyped /\ pc \in {"invoking", "returned"}) =>
        /\ pc = "returned"
        /\ outcome = "Help"
        /\ Len(helpCalls) = 1
        /\ helpCalls[1][1] = BestEffortName
        /\ \A k \in 2..Len(typed) : helpCalls[1][k] = typed[k]
        /\ invoked = <<>>
        /\ output = <<>>
        /\ promptCalls = <<>>

\* C16 witness: "List -h VMs": the first token is not registered, nor is the
\* name joined of the first two, and help is rendered for that name.
C16_Witness ==
    /\ pc = "returned"
    /\ typed = <<TokList, TokHelp, TokVms>>
    /\ ~InCache(BestEffortName)
    /\ outcome = "Help"
    /\ helpCalls = << <<ToLower(TokList \o TokHelp), TokHelp, TokVms>> >>

\* the text ends with "context canceled"
EndsCanceled(text) ==
    \E k \in 0..Len(text) :
        text = SubSeq(text, 1, k)
                \o <<"c", "o", "n", "t", "e", "x", "t", " ",
                     "c", "a", "n", "c", "e", "l", "e", "d">>

\* C17: when NewAPIRequest returns an error whose text ends with the
\* cancellation suffix the handler prints nothing and returns no error;
\* for any other error it renders the response, when there is one, and then
\* returns the error; the file prompt is entered in neither case.
C17_InvokerError ==
    (pc = "returned" /\ invoked # <<>> /\ ~err.isNil) =>
        /\ promptCalls = <<>>
        /\ IF EndsCanceled(err.text)
           THEN output = <<>> /\ outcome = "Cancelled"
           ELSE /\ outcome = "Error"
                /\ output = IF response.isNil THEN <<>>
                            ELSE << <<"printResult", response>> >>

\* C17 witness: the server refuses and a partial response came with the
\* error: the response is rendered and the error returned.
C17_Witness ==
    /\ pc = "returned"
    /\ err = ErrOther
    /\ response = RespSome
    /\ output = << <<"printResult", RespSome>> >>
    /\ outcome = "Error"

(***************************************************************************)
(* Claims about one file's upload (checked under SpecUpload).              *)
(***************************************************************************)
\* the lines printed so far
PrintedLines == {output[k].line : k \in 1..Len(output)}

\* C18: uploadFile returns no error exactly when the status of the response
\* is 200 or 201; for every other status it returns an error that carries
\* the text of the response body, and a transport error is returned as it
\* is; the loop counts and prints what was returned.
C18_SuccessIs200Or201 ==
    \A k \in 1..Len(replies) :
        LET r == replies[k] IN
        /\ r.returned = "nil" <=> (r.transport = "nil" /\ r.status \in {200, 201})
        /\ r.transport # "nil" => r.returned = r.transport
        /\ (r.transport = "nil" /\ r.status \notin {200, 201}) =>
                r.returned = "[" \o Itoa(r.file) \o "/" \o Itoa(Len(validFiles)) \o "] "
                                \o StrOf(Base(validFiles[r.file]))
                                \o "\tupload failed: " \o r.body
        /\ results[r.file] = IF r.returned = "nil" THEN "ok" ELSE "failed"
        /\ r.returned # "nil" =>
                ("Error uploading " \o StrOf(validFiles[r.file]) \o " : " \o r.returned)
                    \in PrintedLines

\* C18 witness: a response with status 204 and the body "signature expired"
\* is a failure that carries the body.
C18_Witness ==
    /\ Len(replies) = 1
    /\ replies[1].status = 204
    /\ replies[1].returned = "[1/1] a\tupload failed: signature expired"
    /\ results = <<"failed">>

(***************************************************************************)
(* Claims about empty input at the prompt (checked under SpecPromptSingle  *)
(* and SpecUpload).                                                        *)
(***************************************************************************)
\* the prompt was shown and nothing was typed, and the flow has gone on
EmptyInputHandled ==
    /\ pc \notin {"prompt", "scanned"}
    /\ Len(output) >= 1
    /\ filePaths = <<>>
    /\ validFiles = <<>>

\* C19: with nothing typed at the prompt the flow is done at once: nothing
\* is printed after the prompt, no path is examined, the response is not
\* inspected, no spinner is started and no file is uploaded.
C19_EmptyInputSkips ==
    EmptyInputHandled =>
        /\ pc = "done"
        /\ Len(output) = 1
        /\ outcome = "Skipped"
        /\ io = [stats |-> 0, opens |-> 0, temps |-> 0, sends |-> 0]
        /\ created = 0 /\ spn = Nil /\ activeSpinners = <<>>
        /\ attempts = <<>>

\* C19, what holds in PromptAndUploadFileIfNeeded: with nothing typed the
\* flow ends with the line "No valid files to upload."; no path is examined,
\* the response is not inspected, no spinner is started and no file is
\* uploaded.
C19_EmptyInputReported ==
    EmptyInputHandled =>
        /\ pc = "done"
        /\ Len(output) = 2
        /\ output[2].line = "No valid files to upload."
        /\ outcome = "NoValidFiles"
        /\ io = [stats |-> 0, opens |-> 0, temps |-> 0, sends |-> 0]
        /\ created = 0 /\ spn = Nil /\ activeSpinners = <<>>
        /\ attempts = <<>>

(***************************************************************************)
(* Claims about the encoder's steps (checked under SpecUpload).            *)
(***************************************************************************)
\* the request of the current file was handed to client.Do
RequestSent == enc.steps # <<>> /\ enc.steps[Len(enc.steps)] = "send"

\* C20: when the request of a file is sent, the multipart body with its one
\* part, named file, was written to the temporary file and the writer
\* closed, then the size measured, then the position reset to the start, in
\* this order; Content-Length is the measured size, the body is read from
\* offset 0, and an upload that succeeds has streamed Content-Length bytes.
C20_EncodeMeasureRewindSend ==
    /\ RequestSent =>
        /\ enc.steps = <<"create", "part", "copy", "close", "measure", "rewind", "send">>
        /\ enc.parts = <<"file">>
        /\ enc.closed
        /\ enc.size = enc.written
        /\ enc.contentLength = enc.size
        /\ enc.bodyFrom = 0
        /\ enc.streamed <= enc.contentLength
        /\ (Len(results) = Len(attempts) /\ results[Len(results)] = "ok") =>
                enc.streamed = enc.contentLength
    /\ (pc = "u_send" \/ inFlight > 0) => RequestSent

\* C20 witness: a file of two bytes was uploaded: the body of seven bytes
\* was streamed whole.
C20_Witness ==
    /\ RequestSent
    /\ results = <<"ok">>
    /\ enc.written = 7
    /\ enc.contentLength = 7
    /\ enc.streamed = 7


(***************************************************************************)
(* Claims about the spinner of an upload batch (checked under SpecBatch).  *)
(***************************************************************************)
\* the handles that carry a label the batch wrote: those it acquired
BatchHandles == {h \in 1..created : suffix[h] # PriorLabel}

\* UploadFiles is past its call of StartSpinner and has not panicked
InBatch == pc = "loop" \/ InFile

\* C21: a batch that uploads a file has acquired one handle, before the
\* first file, and uses that handle for every file; until the batch is Done
\* the handle is the last member of the active list; at Done it does not
\* animate, it is no member, and the list is the one UploadFiles was
\* entered with, whatever the files' results.
C21_OneSpinnerPerBatch ==
    /\ attempts # <<>> => spn # Nil
    /\ spn # Nil =>
        /\ BatchHandles = {spn}
        /\ spn \notin Range(activeBefore)
        /\ InBatch => activeSpinners = Append(activeBefore, spn)
        /\ outcome = "Done" =>
            /\ ~SpinnerActive(running, spn)
            /\ spn \notin Range(activeSpinners)
            /\ activeSpinners = activeBefore

\* C21 witness: a batch of two files, one uploaded and one failed, in a
\* session that held the animating handle 2: at Done the list is <<2>> again
\* and the batch's handle 3 does not animate.
C21_Witness ==
    /\ outcome = "Done"
    /\ results = <<"ok", "failed">>
    /\ activeBefore = <<2>>
    /\ activeSpinners = <<2>>
    /\ spn = 3
    /\ created = 3
    /\ running = {2}

\* the lines of the files behind us: the batch prints its heading, then one
\* line for every file whose upload has returned
PerFileLines == {k \in 2..(1 + Len(results)) : k <= Len(output)}

\* C22: in a batch that holds a handle, the handle does not animate when
\* the line of a file, success or error, is printed; at the head of the
\* loop, before the next file, and while a file is uploaded it animates,
\* at the head of the loop with the label " Uploading files, please
\* wait..."; and it is a member of the active list until the batch is Done.
C22_PauseResumeAroundLines ==
    (spn # Nil /\ (InBatch \/ outcome = "Done")) =>
        /\ Len(output) >= 1 + Len(results)
        /\ \A k \in PerFileLines : ~output[k].animating
        /\ InBatch =>
            /\ SpinnerActive(running, spn)
            /\ spn \in Range(activeSpinners)
        /\ pc = "loop" => suffix[spn] = " " \o uploadingMessage

\* C22 witness: the first of two files failed and the second succeeded;
\* both lines were printed with the handle halted, and at the head of the
\* loop the handle animates under the generic label.
C22_Witness ==
    /\ pc = "loop"
    /\ spn # Nil
    /\ results = <<"failed", "ok">>
    /\ Len(output) = 3
    /\ ~output[2].animating /\ ~output[3].animating
    /\ SpinnerActive(running, spn)
    /\ suffix[spn] = " " \o uploadingMessage
    /\ spn \in Range(activeSpinners)

\* the next statement of the batch writes the handle's label (the head of
\* the loop with a file left) or UploadFiles is inside uploadFile, which
\* writes the label and halts and restarts the handle
HandleUseDue == (pc = "loop" /\ idx < Len(validFiles)) \/ InFile

\* C23: whenever the batch is about to write the spinner's label or to halt
\* or restart the spinner, the handle is not the empty handle, and the
\* batch does not end in a panic on it, a call of UploadFiles without a
\* shell included.
C23_HandleNonEmpty ==
    /\ HandleUseDue => spn # Nil
    /\ pc = "panicked" => upResponse.kind = "nil"

\* C23, what holds: with a shell the handle is never the empty handle when
\* the batch uses it; without one the batch is safe only when there is no
\* file, for then the loop body never runs and StopSpinner ignores the
\* empty handle.
C23_HandleNonEmptyWithShell ==
    /\ (HasShell \/ validFiles = <<>>) =>
            /\ HandleUseDue => spn # Nil
            /\ pc = "panicked" => upResponse.kind = "nil"
    /\ (pc = "panicked" /\ upResponse.kind # "nil") =>
            /\ ~HasShell
            /\ spn = Nil
            /\ attempts = <<>>
            /\ BatchHandles = {}
            /\ activeSpinners = activeBefore

=============================================================================
